---- MODULE Spec2Model ----
(***************************************************************************)
(* The execution engine of the EX language interpreter: the scoped binding *)
(* store (values/values.rs), the visibility registry and the function call *)
(* protocol (interpreter/interpreter.rs).                                  *)
(*                                                                         *)
(* execute/eval are mutually recursive in the source.  The recursion is    *)
(* unfolded here with an explicit native call stack (stack): one action    *)
(* runs one statement handler to the point where it either finishes or     *)
(* descends into the body of a called Function; Return is the tail of the  *)
(* FunctionCall handler that runs when the body has completed.  A failure  *)
(* (Rust's `?`) unwinds the whole native stack and leaves the interpreter  *)
(* fields exactly as they were at the failing point.                       *)
(***************************************************************************)
EXTENDS Integers, Sequences, FiniteSets, TLC

VARIABLES
    environment,               \* Environment.scopes: Vec<HashMap<String, Binding>>
    visible,                   \* block name -> (variable name -> Value)
    initialized_visible,       \* block name -> bool
    visible_definitions,       \* block name -> Vec<(String, Expr)>
    current_function_context,  \* Option<Vec<String>>
    stack,                     \* native call stack: one frame per running FunctionCall
    argsFirst,                 \* FALSE: eval of interpreter.rs, TRUE: eval of evaluate_mod.rs
    last,                      \* history: the statement handled by the last step and its outcome
    initEvals,                 \* history: block -> evaluations of each initializer of its
                               \*          current declaration
    initAborted                \* history: block -> an initialisation of its current
                               \*          declaration has failed

vars == <<environment, visible, initialized_visible, visible_definitions,
          current_function_context, stack, argsFirst, last, initEvals,
          initAborted>>

----------------------------------------------------------------------------
(* Bounds of the model *)

MaxDepth == 3

MaxInitEvals == 2

----------------------------------------------------------------------------
(* Values, expressions and statements (the AST nodes the engine consumes) *)

NilV == [t |-> "Nil", v |-> 0]

IntV(n) == [t |-> "Int", v |-> n]

FunctionV(id) == [t |-> "Function", v |-> id]

StringV(str) == [t |-> "String", v |-> str]

ArrayV(elements) == [t |-> "Array", v |-> elements]

LitE(n) == [k |-> "Lit", n |-> n, name |-> ""]

VarE(name) == [k |-> "Var", n |-> 0, name |-> name]

NoE == [k |-> "None", n |-> 0, name |-> ""]

AllocS(name, e) == [op |-> "Alloc", name |-> name, e |-> e, args |-> <<>>]

ReadS(name) == [op |-> "Read", name |-> name, e |-> NoE, args |-> <<>>]

CallS(function, args) == [op |-> "Call", name |-> function, e |-> NoE, args |-> args]

VisibleS(name, block) == [op |-> "Visible", name |-> name, e |-> NoE, args |-> block]

(* Stmt::Label { _label_ }: items lists the rows of LabelItems it declares *)
LabelOf(items) == [op |-> "Label", name |-> "", e |-> NoE, args |-> items]

LabelS == LabelOf(<<1, 2, 3, 4>>)

ControlFlowV(id) == [t |-> "ControlFlow", v |-> id]

SmartConstS(variable) == [op |-> "SmartConst", name |-> variable, e |-> NoE, args |-> <<>>]

SmartLockS(variable) == [op |-> "SmartLock", name |-> variable, e |-> NoE, args |-> <<>>]

SmartUnlockS(variable) == [op |-> "SmartUnlock", name |-> variable, e |-> NoE, args |-> <<>>]

SmartKillS(variable) == [op |-> "SmartKill", name |-> variable, e |-> NoE, args |-> <<>>]

SmartReviveS(variable) == [op |-> "SmartRevive", name |-> variable, e |-> NoE, args |-> <<>>]

JumpS(jump) == [op |-> "Jump", name |-> jump, e |-> NoE, args |-> <<>>]

(* Stmt::If: elif_branches is a sequence of <<condition, body>> pairs and  *)
(* else_branch an Option (None or Some(body))                              *)
IfS(condition, then_branch, elif_branches, else_branch) ==
    [op |-> "If", name |-> "", e |-> condition,
     args |-> <<then_branch, elif_branches, else_branch>>]

ReturnS(function) == [op |-> "Return", name |-> function, e |-> NoE, args |-> <<>>]

(* history markers: the branch of an If has completed; a Jump body has     *)
(* completed; interpret has returned Ok                                   *)
IfEndS == [op |-> "IfEnd", name |-> "", e |-> NoE, args |-> <<>>]

JumpEndS(jump) == [op |-> "JumpEnd", name |-> jump, e |-> NoE, args |-> <<>>]

OkS == [op |-> "Ok", name |-> "", e |-> NoE, args |-> <<>>]

NoS == [op |-> "None", name |-> "", e |-> NoE, args |-> <<>>]

(* The callable items of the visibility program's Label statement.        *)
CallableItems == <<
    [name |-> "set", is_callable |-> TRUE,
     params |-> <<"p", "q">>, defaults |-> <<"z", "c">>,
     body |-> <<AllocS("x", VarE("z"))>>,
     visible_blocks |-> <<"b">>],
    [name |-> "get", is_callable |-> TRUE, params |-> <<>>, defaults |-> <<>>,
     body |-> <<ReadS("x"), ReadS("z")>>,
     visible_blocks |-> <<"b">>],
    [name |-> "peek", is_callable |-> TRUE, params |-> <<>>, defaults |-> <<>>,
     body |-> <<ReadS("x")>>,
     visible_blocks |-> <<>>],
    [name |-> "outer", is_callable |-> TRUE, params |-> <<>>, defaults |-> <<>>,
     body |-> <<AllocS("x", LitE(2)), CallS("get", <<>>), CallS("peek", <<>>)>>,
     visible_blocks |-> <<"b">>] >>

(* The items of the Label statement of the binding-flag program: two      *)
(* control-flow labels that flag x from inside their body, and a callable *)
(* one.                                                                    *)
FlowItems == <<
    [name |-> "lockx", is_callable |-> FALSE, params |-> <<>>, defaults |-> <<>>,
     body |-> <<SmartLockS("x")>>, visible_blocks |-> <<>>],
    [name |-> "constx", is_callable |-> FALSE, params |-> <<>>, defaults |-> <<>>,
     body |-> <<SmartConstS("x")>>, visible_blocks |-> <<>>],
    [name |-> "f", is_callable |-> TRUE, params |-> <<>>, defaults |-> <<>>,
     body |-> <<>>, visible_blocks |-> <<>>] >>

(* The items of the Label statement of the two-block program: both reads   *)
(* the x that b1 and b2 each declare; kill deletes x and introduces w;     *)
(* deep fails on its read of u, which nothing binds; wrap assigns x and    *)
(* calls deep.                                                             *)
NestItems == <<
    [name |-> "both", is_callable |-> TRUE, params |-> <<>>, defaults |-> <<>>,
     body |-> <<ReadS("x")>>, visible_blocks |-> <<"b1", "b2">>],
    [name |-> "kill", is_callable |-> TRUE, params |-> <<>>, defaults |-> <<>>,
     body |-> <<SmartKillS("x"), AllocS("w", LitE(5))>>,
     visible_blocks |-> <<"b1">>],
    [name |-> "deep", is_callable |-> TRUE, params |-> <<>>, defaults |-> <<>>,
     body |-> <<ReadS("u")>>, visible_blocks |-> <<>>],
    [name |-> "wrap", is_callable |-> TRUE, params |-> <<>>, defaults |-> <<>>,
     body |-> <<AllocS("x", LitE(3)), CallS("deep", <<>>)>>,
     visible_blocks |-> <<"b1">>] >>

(* The items of the Label statement of the built-in program: user         *)
(* functions declared under the names of built-ins, and one under a name   *)
(* of its own.                                                             *)
BuiltinItems == <<
    [name |-> "print", is_callable |-> TRUE,
     params |-> <<"src">>, defaults |-> <<"s">>,
     body |-> <<ReadS("s")>>, visible_blocks |-> <<>>],
    [name |-> "typeof", is_callable |-> TRUE,
     params |-> <<"v">>, defaults |-> <<"v">>,
     body |-> <<ReadS("v")>>, visible_blocks |-> <<>>],
    [name |-> "array_len", is_callable |-> TRUE,
     params |-> <<>>, defaults |-> <<>>,
     body |-> <<AllocS("w", LitE(1))>>, visible_blocks |-> <<>>],
    [name |-> "cast_type", is_callable |-> TRUE,
     params |-> <<"value">>, defaults |-> <<"v">>,
     body |-> <<ReadS("v")>>, visible_blocks |-> <<>>],
    [name |-> "user", is_callable |-> TRUE,
     params |-> <<"src">>, defaults |-> <<"s">>,
     body |-> <<ReadS("s")>>, visible_blocks |-> <<>>] >>

(* The items of the Label statements of the equality program: functions   *)
(* and control-flow labels that share a name and differ in everything      *)
(* else, and ones that share everything but the name.                      *)
EqItems == <<
    [name |-> "e", is_callable |-> TRUE,
     params |-> <<"p">>, defaults |-> <<"q">>,
     body |-> <<ReadS("q")>>, visible_blocks |-> <<"b1">>],
    [name |-> "e", is_callable |-> TRUE, params |-> <<>>, defaults |-> <<>>,
     body |-> <<>>, visible_blocks |-> <<>>],
    [name |-> "e", is_callable |-> FALSE, params |-> <<>>, defaults |-> <<>>,
     body |-> <<SmartLockS("x")>>, visible_blocks |-> <<>>],
    [name |-> "e", is_callable |-> FALSE, params |-> <<>>, defaults |-> <<>>,
     body |-> <<>>, visible_blocks |-> <<>>],
    [name |-> "h", is_callable |-> TRUE,
     params |-> <<"p">>, defaults |-> <<"q">>,
     body |-> <<ReadS("q")>>, visible_blocks |-> <<"b1">>],
    [name |-> "h", is_callable |-> FALSE, params |-> <<>>, defaults |-> <<>>,
     body |-> <<SmartLockS("x")>>, visible_blocks |-> <<>>] >>

(* The item of the nesting program: a control-flow label whose body calls *)
(* the function f.                                                         *)
BalanceItems == <<
    [name |-> "blk", is_callable |-> FALSE, params |-> <<>>, defaults |-> <<>>,
     body |-> <<CallS("f", <<>>)>>, visible_blocks |-> <<>>] >>

(* every label item of the programs; a Function or ControlFlow value      *)
(* refers to its item by position                                          *)
(* The item of the Label statement of the undeclared-block program: late  *)
(* is permitted on b and on b2, in that order.                             *)
UndeclaredItems == <<
    [name |-> "late", is_callable |-> TRUE, params |-> <<>>, defaults |-> <<>>,
     body |-> <<ReadS("x")>>, visible_blocks |-> <<"b", "b2">>] >>

(* The items of the Label statement of the lock / unlock program: relock  *)
(* locks and unlocks x, newlock does so with a v it assigns first.         *)
RoundTripItems == <<
    [name |-> "relock", is_callable |-> FALSE, params |-> <<>>, defaults |-> <<>>,
     body |-> <<SmartLockS("x"), SmartUnlockS("x")>>, visible_blocks |-> <<>>],
    [name |-> "newlock", is_callable |-> FALSE, params |-> <<>>, defaults |-> <<>>,
     body |-> <<AllocS("v", LitE(4)), SmartLockS("v"), SmartUnlockS("v")>>,
     visible_blocks |-> <<>>] >>

LabelItems ==
    CallableItems \o FlowItems \o NestItems \o BuiltinItems \o EqItems
        \o BalanceItems \o UndeclaredItems \o RoundTripItems

Blocks == {"b", "b1", "b2"}

(* The declarations of the program's Visible statement for each block.    *)
BlockDecl ==
    [b \in Blocks |->
        IF b = "b" THEN << <<"x", LitE(1)>>, <<"y", VarE("z")>> >>
        ELSE IF b = "b1" THEN << <<"x", LitE(1)>> >>
        ELSE << <<"x", LitE(2)>> >>]

BlockVars == {"x", "y"}

(* Call-site argument lists of the calls to set.                           *)
SetArgs == { << <<"p", VarE("x")>> >>,
             << <<"p", LitE(2)>>, <<"q", LitE(3)>> >> }

(* The statements a batch handed to interpret is made of.                  *)
TopStmts ==
    {VisibleS("b", BlockDecl["b"])}
    \cup {LabelS, SmartConstS("z"), ReadS("x")}
    \cup {AllocS("z", LitE(1)), AllocS("y", LitE(1))}
    \cup {CallS("set", args) : args \in SetArgs}
    \cup {CallS("get", <<>>), CallS("peek", <<>>), CallS("outer", <<>>)}


----------------------------------------------------------------------------
(* Small helpers on maps and sequences *)

EmptyMap == [n \in {} |-> NilV]

Put(f, k, v) == [n \in DOMAIN f \cup {k} |-> IF n = k THEN v ELSE f[n]]

MaxOf(S) == CHOOSE i \in S : \A j \in S : j <= i

MinOf(S) == CHOOSE i \in S : \A j \in S : i <= j

Perms(S) == {s \in [1..Cardinality(S) -> S] : \A e \in S : \E i \in DOMAIN s : s[i] = e}

(* the orders in which a HashMap over the block variables can iterate      *)
Orders == Perms(BlockVars)

None == {}

Some(list) == {list}

Unwrap(opt) == CHOOSE l \in opt : TRUE

----------------------------------------------------------------------------
(* Environment (values/values.rs) *)

Binding(value, is_constant, smart_lock) ==
    [value |-> value, is_constant |-> is_constant, smart_lock |-> smart_lock]

Exists(scopes, name) == \E i \in 1..Len(scopes) : name \in DOMAIN scopes[i]

(* index of the innermost scope that binds name, 0 when none does *)
ScopeOf(scopes, name) ==
    LET holds == {i \in 1..Len(scopes) : name \in DOMAIN scopes[i]}
    IN  IF holds = {} THEN 0 ELSE MaxOf(holds)

Get(scopes, name) ==
    IF Exists(scopes, name)
    THEN [err |-> "", val |-> scopes[ScopeOf(scopes, name)][name].value]
    ELSE [err |-> "UndefinedVariable", val |-> NilV]

(* define that never searches: it always inserts in the current scope    *)
DefineCurrentOnly(scopes, name, value) ==
    [err |-> "",
     env |-> [scopes EXCEPT ![Len(scopes)] =
                 Put(@, name, Binding(value, FALSE, FALSE))]]

Define(scopes, name, value) ==
    LET i == ScopeOf(scopes, name)
    IN  IF i # 0
        THEN IF scopes[i][name].is_constant
             THEN [err |-> "CannotReassignConstant", env |-> scopes]
             ELSE IF scopes[i][name].smart_lock
             THEN [err |-> "CannotReassignSmartLocked", env |-> scopes]
             ELSE [err |-> "",
                   env |-> [scopes EXCEPT ![i] =
                               Put(@, name, Binding(value, FALSE, FALSE))]]
        ELSE [err |-> "",
              env |-> [scopes EXCEPT ![Len(scopes)] =
                          Put(@, name, Binding(value, FALSE, FALSE))]]

DefineConstant(scopes, name, value) ==
    [scopes EXCEPT ![Len(scopes)] = Put(@, name, Binding(value, TRUE, FALSE))]

(* define_smart_lock that searches: it flags the binding where it is held *)
DefineSmartLockSearching(scopes, name, value) ==
    [scopes EXCEPT ![IF ScopeOf(scopes, name) # 0 THEN ScopeOf(scopes, name)
                     ELSE Len(scopes)] =
        Put(@, name, Binding(value, FALSE, TRUE))]

DefineSmartLock(scopes, name, value) ==
    [scopes EXCEPT ![Len(scopes)] = Put(@, name, Binding(value, FALSE, TRUE))]

(* define_smart_unclock without the insert after scope.remove(name)       *)
DefineSmartUnclockRemoving(scopes, name, value) ==
    [scopes EXCEPT ![Len(scopes)] =
        [n \in DOMAIN @ \ {name} |-> @[n]]]

(* scope.remove(name) followed by the insert of a plain binding           *)
DefineSmartUnclock(scopes, name, value) ==
    [scopes EXCEPT ![Len(scopes)] = Put(@, name, Binding(value, FALSE, FALSE))]

(* f without the key k *)
Remove(f, k) == [n \in DOMAIN f \ {k} |-> f[n]]

(* delete_variable that removes the binding whatever its flags            *)
DeleteVariableUnguarded(scopes, name) ==
    LET i == ScopeOf(scopes, name)
    IN  IF i # 0
        THEN [err |-> "", env |-> [scopes EXCEPT ![i] = Remove(@, name)]]
        ELSE [err |-> "CannotDeleteUndefined", env |-> scopes]

DeleteVariable(scopes, name) ==
    LET i == ScopeOf(scopes, name)
    IN  IF i # 0
        THEN IF scopes[i][name].is_constant
             THEN [err |-> "CannotDeleteConstant", env |-> scopes]
             ELSE IF scopes[i][name].smart_lock
             THEN [err |-> "CannotDeleteSmartLocked", env |-> scopes]
             ELSE [err |-> "", env |-> [scopes EXCEPT ![i] = Remove(@, name)]]
        ELSE [err |-> "CannotDeleteUndefined", env |-> scopes]

PushScope(scopes) == Append(scopes, EmptyMap)

(* pop_scope without the guard on the global scope                       *)
PopScopeUnguarded(scopes) == SubSeq(scopes, 1, Len(scopes) - 1)

PopScope(scopes) ==
    IF Len(scopes) > 1 THEN SubSeq(scopes, 1, Len(scopes) - 1) ELSE scopes

----------------------------------------------------------------------------
(* Expression evaluation (interpreter/interpreter.rs, eval) *)

(* Expr::Variable: the binding store first, then the permitted blocks of  *)
(* the current function context in list order.                            *)
LookupVariable(name, scopes, ctx, vis) ==
    IF Exists(scopes, name)
    THEN Get(scopes, name)
    ELSE IF ctx # None
    THEN LET allowed == Unwrap(ctx)
             hits == {i \in 1..Len(allowed) :
                        /\ allowed[i] \in DOMAIN vis
                        /\ name \in DOMAIN vis[allowed[i]]}
         IN  IF hits # {}
             THEN [err |-> "", val |-> vis[allowed[MinOf(hits)]][name]]
             ELSE [err |-> "UndefinedVariable", val |-> NilV]
    ELSE [err |-> "UndefinedVariable", val |-> NilV]

(* Expr::_Literal_ and Expr::Variable *)
EvalExpr(e, scopes, ctx, vis) ==
    IF e.k = "Lit"
    THEN [err |-> "", val |-> IntV(e.n)]
    ELSE LookupVariable(e.name, scopes, ctx, vis)

----------------------------------------------------------------------------
(* The FunctionCall protocol (interpreter/interpreter.rs, 669-796) *)

(* The interpreter fields as they are threaded through one handler, with  *)
(* the outcome (err, "" when none) and what the handler evaluated.        *)
Fields(err, scopes, vis, init, ctx) ==
    [err |-> err, env |-> scopes, vis |-> vis, init |-> init, ctx |-> ctx,
     inits |-> <<>>, argv |-> <<>>, phase |-> "lookup", fn |-> 0, prev |-> None]

(* The initializers of one block, in declared order, up to the first      *)
(* failure: acc = [err, map, done], done the indices evaluated.           *)
RECURSIVE EvalInits(_, _, _, _, _, _)
EvalInits(def, i, scopes, ctx, vis, acc) ==
    IF i > Len(def)
    THEN acc
    ELSE LET r == EvalExpr(def[i][2], scopes, ctx, vis)
             done == Append(acc.done, i)
         IN  IF r.err # ""
             THEN [err |-> r.err, map |-> acc.map, done |-> done]
             ELSE EvalInits(def, i + 1, scopes, ctx, vis,
                            [err |-> "", map |-> Put(acc.map, def[i][1], r.val),
                             done |-> done])

(* InitBlock with the store of the initialized flag left out.             *)
InitBlockNoFlag(S, b, defs) ==
    IF b \notin DOMAIN S.vis
    THEN [S EXCEPT !.err = "UndefinedVisibleBlock"]
    ELSE IF (IF b \in DOMAIN S.init THEN S.init[b] ELSE FALSE)
    THEN S
    ELSE IF b \notin DOMAIN defs
    THEN [S EXCEPT !.err = "NoDefinition"]
    ELSE LET pushed == PushScope(S.env)
             r == EvalInits(defs[b], 1, pushed, S.ctx, S.vis,
                            [err |-> "", map |-> EmptyMap, done |-> <<>>])
             evaluated == S.inits \o [k \in 1..Len(r.done) |-> <<b, r.done[k]>>]
         IN  IF r.err # ""
             THEN [S EXCEPT !.err = r.err, !.env = pushed, !.inits = evaluated]
             ELSE [S EXCEPT !.env = PopScope(pushed),
                            !.vis = Put(S.vis, b, r.map),
                            !.inits = evaluated]

(* One iteration of the initialisation loop over func.visible_blocks.     *)
InitBlock(S, b, defs) ==
    IF b \notin DOMAIN S.vis
    THEN [S EXCEPT !.err = "UndefinedVisibleBlock"]
    ELSE IF (IF b \in DOMAIN S.init THEN S.init[b] ELSE FALSE)
    THEN S
    ELSE IF b \notin DOMAIN defs
    THEN [S EXCEPT !.err = "NoDefinition"]
    ELSE LET pushed == PushScope(S.env)
             r == EvalInits(defs[b], 1, pushed, S.ctx, S.vis,
                            [err |-> "", map |-> EmptyMap, done |-> <<>>])
             evaluated == S.inits \o [k \in 1..Len(r.done) |-> <<b, r.done[k]>>]
         IN  IF r.err # ""
             THEN [S EXCEPT !.err = r.err, !.env = pushed, !.inits = evaluated]
             ELSE [S EXCEPT !.env = PopScope(pushed),
                            !.vis = Put(S.vis, b, r.map),
                            !.init = Put(S.init, b, TRUE),
                            !.inits = evaluated]

RECURSIVE InitBlocks(_, _, _, _)
InitBlocks(S, blocks, i, defs) ==
    IF i > Len(blocks) \/ S.err # ""
    THEN S
    ELSE InitBlocks(InitBlock(S, blocks[i], defs), blocks, i + 1, defs)

(* The (name, value) pairs the injection loop defines: the blocks in list *)
(* order, each block's HashMap in the iteration order `order`.            *)
RECURSIVE InjectPairs(_, _, _, _)
InjectPairs(blocks, vis, order, i) ==
    IF i > Len(blocks)
    THEN <<>>
    ELSE LET b == blocks[i]
             names == IF b \in DOMAIN vis
                      THEN SelectSeq(order, LAMBDA n : n \in DOMAIN vis[b])
                      ELSE <<>>
         IN  [k \in 1..Len(names) |-> <<names[k], vis[b][names[k]]>>]
             \o InjectPairs(blocks, vis, order, i + 1)

(* environment.define for each pair in turn, stopping at the first error  *)
RECURSIVE DefineAll(_, _, _)
DefineAll(scopes, pairs, i) ==
    IF i > Len(pairs)
    THEN [err |-> "", env |-> scopes]
    ELSE LET r == Define(scopes, pairs[i][1], pairs[i][2])
         IN  IF r.err # "" THEN r ELSE DefineAll(r.env, pairs, i + 1)

(* The argument map: every call-site expression evaluated in order up to  *)
(* the first failure; vals logs the value of each evaluation.             *)
RECURSIVE EvalArgs(_, _, _, _, _, _)
EvalArgs(args, i, scopes, ctx, vis, acc) ==
    IF i > Len(args)
    THEN acc
    ELSE LET r == EvalExpr(args[i][2], scopes, ctx, vis)
         IN  IF r.err # ""
             THEN [err |-> r.err, map |-> acc.map, vals |-> Append(acc.vals, r)]
             ELSE EvalArgs(args, i + 1, scopes, ctx, vis,
                           [err |-> "", map |-> Put(acc.map, args[i][1], r.val),
                            vals |-> Append(acc.vals, r)])

ArgMap(args, scopes, ctx, vis) ==
    EvalArgs(args, 1, scopes, ctx, vis, [err |-> "", map |-> EmptyMap, vals |-> <<>>])

(* BindParams with the value bound under the external name.               *)
RECURSIVE BindParamsExternal(_, _, _, _)
BindParamsExternal(scopes, func, arg_map, i) ==
    IF i > Len(func.params)
    THEN [err |-> "", env |-> scopes]
    ELSE IF func.params[i] \in DOMAIN arg_map
    THEN LET r == Define(scopes, func.params[i], arg_map[func.params[i]])
         IN  IF r.err # "" THEN r ELSE BindParamsExternal(r.env, func, arg_map, i + 1)
    ELSE [err |-> "MissingParameter", env |-> scopes]

(* Map external parameter names to internal variable names.               *)
RECURSIVE BindParams(_, _, _, _)
BindParams(scopes, func, arg_map, i) ==
    IF i > Len(func.params)
    THEN [err |-> "", env |-> scopes]
    ELSE IF func.params[i] \in DOMAIN arg_map
    THEN LET r == Define(scopes, func.defaults[i], arg_map[func.params[i]])
         IN  IF r.err # "" THEN r ELSE BindParams(r.env, func, arg_map, i + 1)
    ELSE [err |-> "MissingParameter", env |-> scopes]

(* MissingCleanup with the pop_scope left out.                            *)
MissingCleanupNoPop(S, scopes, previous_context) ==
    [S EXCEPT !.err = "MissingParameter", !.env = scopes,
              !.ctx = previous_context, !.phase = "bind"]

(* What the missing-parameter path leaves behind.                         *)
MissingCleanup(S, scopes, previous_context) ==
    [S EXCEPT !.err = "MissingParameter", !.env = PopScope(scopes),
              !.ctx = previous_context, !.phase = "bind"]

(* From the context switch to the start of the body.                      *)
EnterFunction(S, func, args, early, order) ==
    LET previous_context == S.ctx
        context == Some(func.visible_blocks)
        pushed == PushScope(S.env)
        inj == DefineAll(pushed, InjectPairs(func.visible_blocks, S.vis, order, 1), 1)
        am == IF argsFirst THEN early ELSE ArgMap(args, inj.env, context, S.vis)
        T == [S EXCEPT !.ctx = context, !.prev = previous_context]
    IN  IF inj.err # ""
        THEN [T EXCEPT !.err = inj.err, !.env = inj.env, !.phase = "inject"]
        ELSE IF am.err # ""
        THEN [T EXCEPT !.err = am.err, !.env = inj.env, !.argv = am.vals,
                       !.phase = "args"]
        ELSE LET bound == BindParams(inj.env, func, am.map, 1)
             IN  IF bound.err = "MissingParameter"
                 THEN [MissingCleanup(T, bound.env, previous_context)
                          EXCEPT !.argv = am.vals]
                 ELSE IF bound.err # ""
                 THEN [T EXCEPT !.err = bound.err, !.env = bound.env,
                                !.argv = am.vals, !.phase = "bind"]
                 ELSE [T EXCEPT !.env = bound.env, !.argv = am.vals,
                                !.phase = "body"]

(* a call that sets the permitted-blocks field before it checks the       *)
(* blocks                                                                  *)
CallEnterContextFirst(function, args, order) ==
    LET S0 == Fields("", environment, visible, initialized_visible,
                     current_function_context)
        early == ArgMap(args, environment, current_function_context, visible)
        fv == Get(environment, function)
    IN  IF argsFirst /\ early.err # ""
        THEN [S0 EXCEPT !.err = early.err, !.argv = early.vals, !.phase = "args"]
        ELSE IF fv.err # ""
        THEN [S0 EXCEPT !.err = fv.err]
        ELSE IF fv.val.t # "Function"
        THEN [S0 EXCEPT !.err = "NotCallable"]
        ELSE LET func == LabelItems[fv.val.v]
                 S1 == InitBlocks([S0 EXCEPT !.fn = fv.val.v, !.phase = "init",
                                             !.ctx = Some(func.visible_blocks)],
                                  func.visible_blocks, 1, visible_definitions)
             IN  IF S1.err # ""
                 THEN S1
                 ELSE EnterFunction(S1, func, args, early, order)

(* Expr::FunctionCall up to the start of the body.                        *)
CallEnter(function, args, order) ==
    LET S0 == Fields("", environment, visible, initialized_visible,
                     current_function_context)
        early == ArgMap(args, environment, current_function_context, visible)
        fv == Get(environment, function)
    IN  IF argsFirst /\ early.err # ""
        THEN [S0 EXCEPT !.err = early.err, !.argv = early.vals, !.phase = "args"]
        ELSE IF fv.err # ""
        THEN [S0 EXCEPT !.err = fv.err]
        ELSE IF fv.val.t # "Function"
        THEN [S0 EXCEPT !.err = "NotCallable"]
        ELSE LET func == LabelItems[fv.val.v]
                 S1 == InitBlocks([S0 EXCEPT !.fn = fv.val.v, !.phase = "init"],
                                  func.visible_blocks, 1, visible_definitions)
             IN  IF S1.err # ""
                 THEN S1
                 ELSE EnterFunction(S1, func, args, early, order)

(* a write-back that drops the names that no longer resolve              *)
WriteBackDropping(vis, scopes, blocks) ==
    [b \in DOMAIN vis |->
        IF \E i \in 1..Len(blocks) : blocks[i] = b
        THEN [n \in {m \in DOMAIN vis[b] : Exists(scopes, m)} |->
                 Get(scopes, n).val]
        ELSE vis[b]]

(* Post-call write-back: every name of every permitted block's            *)
(* materialization that resolves in the environment takes that value.     *)
WriteBack(vis, scopes, blocks) ==
    [b \in DOMAIN vis |->
        IF \E i \in 1..Len(blocks) : blocks[i] = b
        THEN [n \in DOMAIN vis[b] |->
                 IF Exists(scopes, n) THEN Get(scopes, n).val ELSE vis[b][n]]
        ELSE vis[b]]

(* RestoreContext that clears the field instead of restoring it.         *)
RestoreContextNone(previous_context) == None

(* self.current_function_context = previous_context                       *)
RestoreContext(previous_context) == previous_context

----------------------------------------------------------------------------
(* The statement being handled *)

Top == stack[Len(stack)]

(* a frame of a label body (fn > 0) runs that item's body; the frame of an *)
(* interpret call or of an If branch (fn = 0) carries its statements      *)
BodyOf(frame) == IF frame.fn = 0 THEN frame.body ELSE LabelItems[frame.fn].body

(* "top" for a statement of the batch, else the running Function's name   *)
Who ==
    IF stack = <<>> THEN "top"
    ELSE IF Top.fn = 0 THEN Top.name
    ELSE LabelItems[Top.fn].name

(* the statements that can be executed next: any one of the host's when   *)
(* nothing runs, else the one the running body has reached                *)
Candidates ==
    IF stack = <<>> THEN TopStmts
    ELSE IF Top.pc <= Len(BodyOf(Top)) THEN {BodyOf(Top)[Top.pc]}
    ELSE {}

(* s is the next statement interpret or the running body executes         *)
Current(s) ==
    IF stack = <<>>
    THEN s \in TopStmts
    ELSE Top.pc <= Len(BodyOf(Top)) /\ s = BodyOf(Top)[Top.pc]

Advance(frames) ==
    IF frames = <<>> THEN frames ELSE [frames EXCEPT ![Len(frames)].pc = @ + 1]

(* a handler after which the loop goes on whatever it returned            *)
AfterIgnored(err) == Advance(stack)

(* the native stack after a handler: a failure unwinds all of it          *)
After(err) == IF err # "" THEN <<>> ELSE Advance(stack)

Log(s, err, val, argv, inits, phase) ==
    [stmt |-> s, who |-> Who, res |-> err, val |-> val, argv |-> argv,
     inits |-> inits, phase |-> phase]

(* how often the handler evaluated initializer i of block b               *)
Evaluations(inits, b, i) == Cardinality({k \in 1..Len(inits) : inits[k] = <<b, i>>})

----------------------------------------------------------------------------
(* Interpreter::new *)

Fresh ==
    /\ environment = <<EmptyMap>>
    /\ visible = EmptyMap
    /\ initialized_visible = EmptyMap
    /\ visible_definitions = EmptyMap
    /\ current_function_context = None
    /\ stack = <<>>
    /\ last = [stmt |-> NoS, who |-> "top", res |-> "", val |-> NilV,
               argv |-> <<>>, inits |-> <<>>, phase |-> ""]
    /\ initEvals = [b \in Blocks |-> [i \in 1..Len(BlockDecl[b]) |-> 0]]
    /\ initAborted = [b \in Blocks |-> FALSE]

(* the engine of interpreter.rs *)
Init == Fresh /\ argsFirst = FALSE

(* the engine with the eval of evaluate_mod.rs, which evaluates the       *)
(* call-site arguments before anything else                               *)
InitEvaluateMod == Fresh /\ argsFirst = TRUE

(* Stmt::Visible *)
ExecVisible ==
    \E s \in Candidates :
        /\ Current(s)
        /\ s.op = "Visible"
        /\ visible_definitions' = Put(visible_definitions, s.name, s.args)
        /\ visible' = Put(visible, s.name, EmptyMap)
        /\ initialized_visible' = Put(initialized_visible, s.name, FALSE)
        /\ initEvals' = [initEvals EXCEPT ![s.name] = [i \in 1..Len(s.args) |-> 0]]
        /\ initAborted' = [initAborted EXCEPT ![s.name] = FALSE]
        /\ stack' = After("")
        /\ last' = Log(s, "", NilV, <<>>, <<>>, "")
        /\ UNCHANGED <<environment, current_function_context, argsFirst>>

(* Stmt::Label: every item is defined under its name, in order            *)
ExecLabel ==
    \E s \in Candidates :
        /\ Current(s)
        /\ s.op = "Label"
        /\ LET items == [k \in 1..Len(s.args) |->
                            <<LabelItems[s.args[k]].name,
                              IF LabelItems[s.args[k]].is_callable
                              THEN FunctionV(s.args[k])
                              ELSE ControlFlowV(s.args[k])>>]
               r == DefineAll(environment, items, 1)
           IN  /\ environment' = r.env
               /\ stack' = After(r.err)
               /\ last' = Log(s, r.err, NilV, <<>>, <<>>, "")
        /\ UNCHANGED <<visible, initialized_visible, visible_definitions,
                       current_function_context, argsFirst, initEvals,
                       initAborted>>

(* Stmt::Expression(Expr::AllocateVariable) *)
ExecAllocateVariable ==
    \E s \in Candidates :
        /\ Current(s)
        /\ s.op = "Alloc"
        /\ LET val == EvalExpr(s.e, environment, current_function_context, visible)
               r == IF val.err # ""
                    THEN [err |-> val.err, env |-> environment]
                    ELSE Define(environment, s.name, val.val)
               noted == IF stack = <<>> \/ r.err # ""
                        THEN After(r.err)
                        ELSE [Advance(stack) EXCEPT
                                 ![Len(stack)].wrote = Put(@, s.name, val.val),
                                 ![Len(stack)].touched = @ \cup {s.name}]
           IN  /\ environment' = r.env
               /\ stack' = noted
               /\ last' = Log(s, r.err, val.val, <<>>, <<>>, "")
        /\ UNCHANGED <<visible, initialized_visible, visible_definitions,
                       current_function_context, argsFirst, initEvals,
                       initAborted>>

(* a failing read that unwinds the scopes of the running calls            *)
ExecVariableUnwinding ==
    \E s \in Candidates :
        /\ Current(s)
        /\ s.op = "Read"
        /\ LET r == LookupVariable(s.name, environment, current_function_context, visible)
           IN  /\ stack' = After(r.err)
               /\ last' = Log(s, r.err, r.val, <<>>, <<>>, "")
               /\ environment' = IF r.err # "" /\ stack # <<>>
                                 THEN stack[1].env0
                                 ELSE environment
        /\ UNCHANGED <<visible, initialized_visible, visible_definitions,
                       current_function_context, argsFirst, initEvals, initAborted>>

(* Stmt::Expression(Expr::Variable) *)
ExecVariable ==
    \E s \in Candidates :
        /\ Current(s)
        /\ s.op = "Read"
        /\ LET r == LookupVariable(s.name, environment, current_function_context, visible)
           IN  /\ stack' = After(r.err)
               /\ last' = Log(s, r.err, r.val, <<>>, <<>>, "")
        /\ UNCHANGED <<environment, visible, initialized_visible,
                       visible_definitions, current_function_context, argsFirst,
                       initEvals, initAborted>>

(* Stmt::SmartConst *)
ExecSmartConst ==
    \E s \in Candidates :
        /\ Current(s)
        /\ s.op = "SmartConst"
        /\ LET value == Get(environment, s.name)
           IN  /\ environment' = IF value.err # ""
                                 THEN environment
                                 ELSE DefineConstant(environment, s.name, value.val)
               /\ stack' = After(value.err)
               /\ last' = Log(s, value.err, NilV, <<>>, <<>>, "")
        /\ UNCHANGED <<visible, initialized_visible, visible_definitions,
                       current_function_context, argsFirst, initEvals,
                       initAborted>>

(* Value::type_name: the name of the variant *)
type_name(value) == value.t

(* expect_array / array_len of library/array_len.rs *)
array_len(src) ==
    IF src.t = "Array"
    THEN [err |-> "", val |-> IntV(Len(src.v))]
    ELSE [err |-> "ExpectsArray", val |-> NilV]

(* cast_type of library/type_cast.rs for a target that is not a String,   *)
(* the only targets the programs pass                                      *)
cast_type(value, target_type) ==
    [err |-> "ExpectedTargetTypeString", val |-> NilV]

BuiltinNone == [some |-> FALSE, err |-> "", val |-> NilV]

BuiltinSome(r) == [some |-> TRUE, err |-> r.err, val |-> r.val]

(* Interpreter::call_builtin: Some(result) when the built-in handled the  *)
(* call, None to fall back to the user functions.  `args.get(k)?` returns  *)
(* None from call_builtin itself when the argument k is not supplied.      *)
(* What print writes to the standard output is not part of the state.      *)
call_builtin(name, args) ==
    IF name = "print"
    THEN BuiltinSome([err |-> "", val |-> NilV])
    ELSE IF name = "typeof"
    THEN IF Cardinality(DOMAIN args) # 1
         THEN BuiltinSome([err |-> "TypeofArity", val |-> NilV])
         ELSE IF "src" \notin DOMAIN args
         THEN BuiltinNone
         ELSE BuiltinSome([err |-> "", val |-> StringV(type_name(args["src"]))])
    ELSE IF name = "cast_type"
    THEN IF "value" \notin DOMAIN args
         THEN BuiltinSome([err |-> "CastTypeMissingValue", val |-> NilV])
         ELSE IF "type" \notin DOMAIN args
         THEN BuiltinSome([err |-> "CastTypeMissingType", val |-> NilV])
         ELSE BuiltinSome(cast_type(args["value"], args["type"]))
    ELSE IF name = "array_new"
    THEN BuiltinSome([err |-> "", val |-> ArrayV(<<>>)])
    ELSE IF name = "array_len"
    THEN IF "src" \notin DOMAIN args
         THEN BuiltinNone
         ELSE BuiltinSome(array_len(args["src"]))
    ELSE BuiltinNone

(* the call-site arguments of s evaluated first, as eval of                *)
(* evaluate_mod.rs does                                                    *)
EarlyArgs(s) ==
    ArgMap(s.args, environment, current_function_context, visible)

(* the built-in check of eval of evaluate_mod.rs handles the call s *)
BuiltinHandles(s) ==
    /\ argsFirst
    /\ EarlyArgs(s).err = ""
    /\ call_builtin(s.name, EarlyArgs(s).map).some

(* Stmt::Expression(Expr::FunctionCall) of evaluate_mod.rs when            *)
(* call_builtin returns Some(result): the result is returned               *)
BuiltinCall ==
    \E s \in Candidates :
        /\ Current(s)
        /\ s.op = "Call"
        /\ BuiltinHandles(s)
        /\ LET r == call_builtin(s.name, EarlyArgs(s).map)
           IN  /\ stack' = After(r.err)
               /\ last' = Log(s, r.err, r.val, EarlyArgs(s).vals, <<>>, "builtin")
        /\ UNCHANGED <<environment, visible, initialized_visible,
                       visible_definitions, current_function_context, argsFirst,
                       initEvals, initAborted>>

(* Stmt::Expression(Expr::FunctionCall), up to the start of the body      *)
FunctionCall ==
    \E s \in Candidates, order \in Orders :
        /\ Current(s)
        /\ s.op = "Call"
        /\ ~BuiltinHandles(s)
        /\ Len(environment) < MaxDepth
        /\ LET r == CallEnter(s.name, s.args, order)
               evals == [b \in Blocks |-> [i \in 1..Len(BlockDecl[b]) |->
                            initEvals[b][i] + Evaluations(r.inits, b, i)]]
               frame == [fn |-> r.fn, prev |-> r.prev, pc |-> 1,
                         env0 |-> environment, ctx0 |-> current_function_context,
                         wrote |-> EmptyMap, touched |-> {}]
           IN  /\ \A b \in Blocks : \A i \in 1..Len(BlockDecl[b]) :
                      evals[b][i] <= MaxInitEvals
               /\ environment' = r.env
               /\ visible' = r.vis
               /\ initialized_visible' = r.init
               /\ current_function_context' = r.ctx
               /\ initEvals' = evals
               /\ initAborted' = [b \in Blocks |->
                      \/ initAborted[b]
                      \/ /\ r.phase = "init"
                         /\ r.inits # <<>>
                         /\ r.inits[Len(r.inits)][1] = b
                         /\ r.err \notin {"", "UndefinedVisibleBlock", "NoDefinition"}]
               /\ stack' = IF r.err # "" THEN <<>> ELSE Append(stack, frame)
               /\ last' = Log(s, r.err, NilV, r.argv, r.inits, r.phase)
        /\ UNCHANGED <<visible_definitions, argsFirst>>

(* Expr::FunctionCall once the body has completed: write-back, pop scope, *)
(* restore the context; the caller goes on with its next statement.       *)
FunctionReturn ==
    /\ stack # <<>>
    /\ Top.fn # 0
    /\ LabelItems[Top.fn].is_callable
    /\ Top.pc > Len(BodyOf(Top))
    /\ LET func == LabelItems[Top.fn]
           rest == SubSeq(stack, 1, Len(stack) - 1)
       IN  /\ visible' = WriteBack(visible, environment, func.visible_blocks)
           /\ environment' = PopScope(environment)
           /\ current_function_context' = RestoreContext(Top.prev)
           /\ stack' = IF rest = <<>>
                       THEN rest
                       ELSE [Advance(rest) EXCEPT
                                ![Len(rest)].touched = @ \cup Top.touched]
           /\ last' = Log(ReturnS(func.name), "", NilV, <<>>, <<>>, "")
    /\ UNCHANGED <<initialized_visible, visible_definitions, argsFirst,
                   initEvals, initAborted>>

Next ==
    \/ ExecVisible
    \/ ExecLabel
    \/ ExecAllocateVariable
    \/ ExecVariable
    \/ ExecSmartConst
    \/ FunctionCall
    \/ FunctionReturn

Spec == Init /\ [][Next]_vars

SpecEvaluateMod == InitEvaluateMod /\ [][Next]_vars

----------------------------------------------------------------------------
(* Vocabulary of the properties *)

(* the Function named who lists block b *)
Permitted(who, b) ==
    \E i \in 1..Len(LabelItems) :
        /\ LabelItems[i].name = who
        /\ \E k \in 1..Len(LabelItems[i].visible_blocks) :
               LabelItems[i].visible_blocks[k] = b

Initialized(b) ==
    b \in DOMAIN initialized_visible /\ initialized_visible[b]

(* no failed call has left a scope behind: the global scope and one scope *)
(* for each running call                                                   *)
NoLeak == Len(environment) = Len(stack) + 1

(* the value the call site passed under the external name n *)
Passed(args, argv, n) ==
    argv[MaxOf({k \in 1..Len(args) : args[k][1] = n})].val

(* the call site supplies no argument for some external parameter of func *)
LacksArgument(func, args) ==
    \E i \in 1..Len(func.params) :
        \A k \in 1..Len(args) : args[k][1] # func.params[i]

(* the step handles a FunctionCall whose name resolves to a Function *)
CallsFunction ==
    /\ last'.stmt.op = "Call"
    /\ Get(environment, last'.stmt.name).err = ""
    /\ Get(environment, last'.stmt.name).val.t = "Function"

Callee == LabelItems[Get(environment, last'.stmt.name).val.v]

----------------------------------------------------------------------------
(* C1: capability isolation.  A Function that does not list block b fails  *)
(* with UndefinedVariable when its body reads x, a name declared only in b *)
(* and bound nowhere by the program, whatever the call chain -- also when  *)
(* it is called from the body of a Function that lists b.  Stated for the  *)
(* runs in which no failed call has left a scope behind.                   *)
C1_CapabilityIsolation ==
    [][ ( /\ NoLeak
          /\ stack # <<>>
          /\ ~Permitted(Who, "b")
          /\ last'.stmt = ReadS("x")
          /\ last'.who = Who )
        => last'.res = "UndefinedVariable" ]_vars

----------------------------------------------------------------------------
----------------------------------------------------------------------------
(* C3: shared state across calls.  When a Function permitted on b has      *)
(* assigned v to b's variable x in its body and returns successfully, the  *)
(* materialization of b holds x = v (which is what the next permitted      *)
(* Function is given for x).                                               *)
C3_SharedState ==
    [][ ( /\ last'.stmt.op = "Return"
          /\ stack # <<>>
          /\ Permitted(Who, "b")
          /\ "x" \in DOMAIN Top.wrote )
        => visible'["b"]["x"] = Top.wrote["x"] ]_vars

----------------------------------------------------------------------------
(* C4: after any sequence of earlier statements, successful or failed, a   *)
(* top-level statement outside any call that reads x, a name declared only *)
(* in a visible block, fails with UndefinedVariable.                       *)
C4_TopLevelRead ==
    (last.stmt = ReadS("x") /\ last.who = "top") => last.res = "UndefinedVariable"

----------------------------------------------------------------------------
(* C5: materializations are never invalidated.  Once a block's initialized *)
(* flag is true no statement makes it false, and the block's materialized  *)
(* values change only in the write-back of a returning Function permitted  *)
(* on the block.                                                           *)
C5_NeverInvalidated ==
    [][ \A b \in Blocks :
            Initialized(b) =>
                /\ Initialized(b)'
                /\ visible'[b] # visible[b] =>
                       /\ last'.stmt.op = "Return"
                       /\ Permitted(last'.stmt.name, b) ]_vars

----------------------------------------------------------------------------
(* C6: capability-field save/restore.  While the body of a called Function *)
(* runs the field equals that Function's list; a successful return leaves  *)
(* the field at its value from immediately before the call, which is the   *)
(* caller's list after a nested call and None after a call made at top     *)
(* level.                                                                  *)
C6_ContextSaveRestore ==
    [][ /\ stack' # <<>> =>
               current_function_context' =
                   Some(LabelItems[stack'[Len(stack')].fn].visible_blocks)
        /\ (last'.stmt.op = "Return" /\ stack # <<>>) =>
               /\ current_function_context' = Top.ctx0
               /\ Len(stack) = 1 => current_function_context' = None ]_vars

----------------------------------------------------------------------------
(* the first external parameter of func the call site does not supply *)
FirstMissing(func, args) ==
    MinOf({i \in 1..Len(func.params) :
              \A k \in 1..Len(args) : args[k][1] # func.params[i]})

(* binding the parameters that precede the first missing one cannot fail:  *)
(* none of their internal names resolves to a constant or smart-locked     *)
(* binding                                                                 *)
EarlierBindable(func, args) ==
    \A j \in 1..(FirstMissing(func, args) - 1) :
        Define(environment, func.defaults[j], NilV).err = ""

(* the effects the missing-parameter path promises *)
MissingOutcome ==
    /\ last'.res = "MissingParameter"
    /\ stack' = <<>>
    /\ Len(environment') = Len(environment)
    /\ current_function_context' = current_function_context

(* C7 as stated: a call of a Function that supplies no argument for some   *)
(* external parameter fails with the missing-parameter error, does not run *)
(* the body, and leaves the scope depth and the permitted-blocks field at  *)
(* their values from before the call.                                      *)
C7_MissingAlways ==
    [][ (CallsFunction /\ LacksArgument(Callee, last'.stmt.args))
        => MissingOutcome ]_vars

(* C7 amended: the same, for the calls that get as far as parameter        *)
(* binding (block initialisation, injection and argument evaluation have   *)
(* succeeded) and in which binding each parameter that precedes the first  *)
(* missing one succeeds.                                                   *)
C7_MissingParameter ==
    [][ ( /\ CallsFunction
          /\ LacksArgument(Callee, last'.stmt.args)
          /\ last'.phase = "bind"
          /\ EarlierBindable(Callee, last'.stmt.args) )
        => MissingOutcome ]_vars

(* C7 witness: a top-level call has failed for a missing parameter, with   *)
(* the scope popped and the field restored.                                *)
C7_Witness ==
    /\ last.stmt.op = "Call"
    /\ last.res = "MissingParameter"
    /\ last.phase = "bind"
    /\ stack = <<>>
    /\ Len(environment) = 1
    /\ current_function_context = None

----------------------------------------------------------------------------
(* the body of a called Function is about to run its first statement *)
JustEntered ==
    /\ last.stmt.op = "Call"
    /\ last.res = ""
    /\ last.phase = "body"
    /\ stack # <<>>
    /\ Top.pc = 1

----------------------------------------------------------------------------
(* C9: the argument expressions of a call are each evaluated once, in the  *)
(* caller's original context: the logged evaluations are those of the      *)
(* expressions against the scope stack, the permitted-blocks field and the *)
(* materializations as they were before the call.                          *)
C9_ArgsInCallerContext ==
    [][ (CallsFunction /\ last'.phase \in {"args", "bind", "body"})
        => last'.argv = ArgMap(last'.stmt.args, environment,
                               current_function_context, visible).vals ]_vars

----------------------------------------------------------------------------
(* C10: call-frame isolation.  When a call returns, every binding that     *)
(* existed in the caller's scopes before the call and whose name no body   *)
(* run by the call assigned has the value it had before the call.          *)
C10_FrameIsolation ==
    [][ (last'.stmt.op = "Return" /\ stack # <<>>)
        => \A k \in 1..Len(Top.env0) : \A n \in DOMAIN Top.env0[k] :
               n \notin Top.touched =>
                   /\ k <= Len(environment')
                   /\ n \in DOMAIN environment'[k]
                   /\ environment'[k][n].value = Top.env0[k][n].value ]_vars

----------------------------------------------------------------------------
(* Batches, binding flags and Jump                                         *)

(* The frame of a statement list that is not a label body: the batch of an *)
(* interpret call (kind "interpret") or the chosen branch of an If (kind   *)
(* "if").                                                                  *)
ListFrame(kind, name, body) ==
    [fn |-> 0, kind |-> kind, name |-> name, body |-> body, pc |-> 1,
     env0 |-> environment, ctx0 |-> current_function_context,
     wrote |-> EmptyMap, touched |-> {}]

(* Interpreter::interpret, called by the host with one of batches: the     *)
(* loop over the statements starts                                         *)
Interpret(batches) ==
    /\ stack = <<>>
    /\ \E i \in 1..Len(batches) :
           stack' = <<ListFrame("interpret", "top", batches[i])>>
    /\ last' = Log(NoS, "", NilV, <<>>, <<>>, "")
    /\ UNCHANGED <<environment, visible, initialized_visible,
                   visible_definitions, current_function_context, argsFirst,
                   initEvals, initAborted>>

(* Interpreter::interpret: every statement succeeded, Ok(()) is returned   *)
InterpretReturn ==
    /\ Len(stack) = 1
    /\ Top.fn = 0
    /\ Top.kind = "interpret"
    /\ Top.pc > Len(BodyOf(Top))
    /\ stack' = <<>>
    /\ last' = Log(OkS, "", NilV, <<>>, <<>>, "")
    /\ UNCHANGED <<environment, visible, initialized_visible,
                   visible_definitions, current_function_context, argsFirst,
                   initEvals, initAborted>>

(* a statement handler that touches the binding store only *)
StoreDone(s, r) ==
    /\ environment' = r.env
    /\ stack' = After(r.err)
    /\ last' = Log(s, r.err, NilV, <<>>, <<>>, "")
    /\ UNCHANGED <<visible, initialized_visible, visible_definitions,
                   current_function_context, argsFirst, initEvals,
                   initAborted>>

(* get(variable)? followed by one of the flag-setting defines, whose       *)
(* outcome on the value read is defined                                    *)
Reflag(variable, defined) ==
    LET value == Get(environment, variable)
    IN  IF value.err # ""
        THEN [err |-> value.err, env |-> environment]
        ELSE [err |-> "", env |-> defined]

(* Stmt::SmartLock *)
ExecSmartLock ==
    \E s \in Candidates :
        /\ s.op = "SmartLock"
        /\ StoreDone(s, Reflag(s.name,
                DefineSmartLock(environment, s.name,
                                Get(environment, s.name).val)))

(* Stmt::SmartUnlock *)
ExecSmartUnlock ==
    \E s \in Candidates :
        /\ s.op = "SmartUnlock"
        /\ StoreDone(s, Reflag(s.name,
                DefineSmartUnclock(environment, s.name,
                                   Get(environment, s.name).val)))

(* Stmt::SmartKill *)
ExecSmartKill ==
    \E s \in Candidates :
        /\ s.op = "SmartKill"
        /\ StoreDone(s, DeleteVariable(environment, s.name))

(* SmartRevive that reads the variable first, as the other four do       *)
ExecSmartReviveRead ==
    \E s \in Candidates :
        /\ s.op = "SmartRevive"
        /\ StoreDone(s, Reflag(s.name, Define(environment, s.name, NilV).env))

(* Stmt::SmartRevive *)
ExecSmartRevive ==
    \E s \in Candidates :
        /\ s.op = "SmartRevive"
        /\ StoreDone(s, Define(environment, s.name, NilV))

(* Stmt::Jump, up to the start of the label's body                         *)
ExecJump ==
    \E s \in Candidates :
        /\ s.op = "Jump"
        /\ Len(environment) < MaxDepth
        /\ LET target_value == Get(environment, s.name)
               err == IF target_value.err # "" THEN target_value.err
                      ELSE IF target_value.val.t # "ControlFlow" THEN "NotJumpTarget"
                      ELSE ""
               frame == [fn |-> target_value.val.v, pc |-> 1,
                         env0 |-> environment, ctx0 |-> current_function_context,
                         wrote |-> EmptyMap, touched |-> {}]
           IN  /\ environment' = IF err # "" THEN environment
                                 ELSE PushScope(environment)
               /\ stack' = IF err # "" THEN <<>> ELSE Append(stack, frame)
               /\ last' = Log(s, err, NilV, <<>>, <<>>, "")
        /\ UNCHANGED <<visible, initialized_visible, visible_definitions,
                       current_function_context, argsFirst, initEvals,
                       initAborted>>

(* the end of a Jump that leaves the pushed scope in place                *)
JumpReturnNoPop ==
    /\ stack # <<>>
    /\ Top.fn # 0
    /\ ~LabelItems[Top.fn].is_callable
    /\ Top.pc > Len(BodyOf(Top))
    /\ stack' = Advance(SubSeq(stack, 1, Len(stack) - 1))
    /\ last' = Log(JumpEndS(LabelItems[Top.fn].name), "", NilV, <<>>, <<>>, "")
    /\ UNCHANGED <<environment, visible, initialized_visible,
                   visible_definitions, current_function_context, argsFirst,
                   initEvals, initAborted>>

(* Stmt::Jump once the label's body has completed: pop_scope, Ok(())       *)
JumpReturn ==
    /\ stack # <<>>
    /\ Top.fn # 0
    /\ ~LabelItems[Top.fn].is_callable
    /\ Top.pc > Len(BodyOf(Top))
    /\ LET rest == SubSeq(stack, 1, Len(stack) - 1)
       IN  /\ environment' = PopScope(environment)
           /\ stack' = IF rest = <<>>
                       THEN rest
                       ELSE [Advance(rest) EXCEPT
                                ![Len(rest)].touched = @ \cup Top.touched]
           /\ last' = Log(JumpEndS(LabelItems[Top.fn].name), "", NilV, <<>>, <<>>, "")
    /\ UNCHANGED <<visible, initialized_visible, visible_definitions,
                   current_function_context, argsFirst, initEvals, initAborted>>

(* The statements of the binding-flag program; the host hands each to      *)
(* interpret as a batch of its own, in any order, any number of times.     *)
FlagBatches == <<
    <<AllocS("x", LitE(1))>>, <<AllocS("x", LitE(2))>>,
    <<SmartLockS("x")>>, <<SmartUnlockS("x")>>, <<SmartKillS("x")>>,
    <<SmartReviveS("x")>>, <<SmartConstS("x")>>,
    <<LabelOf(<<5, 6, 7>>)>>,
    <<JumpS("lockx")>>, <<JumpS("constx")>>, <<JumpS("x")>>, <<JumpS("f")>> >>

InterpretFlags == Interpret(FlagBatches)

(* the handlers shared with the visibility program, run from a batch       *)
BatchAllocateVariable == stack # <<>> /\ ExecAllocateVariable

BatchSmartConst == stack # <<>> /\ ExecSmartConst

BatchLabel == stack # <<>> /\ ExecLabel

NextFlags ==
    \/ InterpretFlags
    \/ InterpretReturn
    \/ BatchAllocateVariable
    \/ BatchSmartConst
    \/ BatchLabel
    \/ ExecSmartLock
    \/ ExecSmartUnlock
    \/ ExecSmartKill
    \/ ExecSmartRevive
    \/ ExecJump
    \/ JumpReturn

SpecFlags == Init /\ [][NextFlags]_vars

----------------------------------------------------------------------------
(* If / elif / else and multi-statement batches                            *)

(* Value::truthy, on the values of the model *)
Truthy(value) ==
    IF value.t = "Nil" THEN FALSE
    ELSE IF value.t = "Bool" THEN value.v
    ELSE IF value.t = "Int" THEN value.v # 0
    ELSE IF value.t = "Float" THEN value.v \notin {"0.0", "-0.0", "NaN"}
    ELSE IF value.t = "BigInt" THEN value.v # "0" /\ value.v # ""
    ELSE IF value.t = "String" THEN value.v # ""
    ELSE TRUE

(* The outcome of the condition scan of an If: the conditions evaluated,   *)
(* in evaluation order (0 the primary one, i the one of elif clause i),    *)
(* and the branch chosen: "then", "elif" with its index, "else" or "none". *)
Scanned(err, evaluated, branch, index, body) ==
    [err |-> err, evaluated |-> evaluated, branch |-> branch, index |-> index,
     body |-> body]

(* the loop over elif_branches without its break: the clauses after a      *)
(* truthy one are evaluated too                                            *)
RECURSIVE ScanElifsNoBreak(_, _, _)
ScanElifsNoBreak(s, i, evaluated) ==
    LET elif_branches == s.args[2]
        else_branch == s.args[3]
    IN  IF i > Len(elif_branches)
        THEN IF else_branch # None
             THEN Scanned("", evaluated, "else", 0, Unwrap(else_branch))
             ELSE Scanned("", evaluated, "none", 0, <<>>)
        ELSE LET elif_value == EvalExpr(elif_branches[i][1], environment,
                                        current_function_context, visible)
                 rest == ScanElifsNoBreak(s, i + 1, Append(evaluated, i))
             IN  IF elif_value.err # ""
                 THEN Scanned(elif_value.err, Append(evaluated, i), "none", 0, <<>>)
                 ELSE IF ~Truthy(elif_value.val) \/ rest.err # "" \/ rest.branch = "elif"
                 THEN rest
                 ELSE Scanned("", rest.evaluated, "elif", i, elif_branches[i][2])

(* the loop over elif_branches from clause i on, then the else branch      *)
RECURSIVE ScanElifs(_, _, _)
ScanElifs(s, i, evaluated) ==
    LET elif_branches == s.args[2]
        else_branch == s.args[3]
    IN  IF i > Len(elif_branches)
        THEN IF else_branch # None
             THEN Scanned("", evaluated, "else", 0, Unwrap(else_branch))
             ELSE Scanned("", evaluated, "none", 0, <<>>)
        ELSE LET elif_value == EvalExpr(elif_branches[i][1], environment,
                                        current_function_context, visible)
             IN  IF elif_value.err # ""
                 THEN Scanned(elif_value.err, Append(evaluated, i), "none", 0, <<>>)
                 ELSE IF Truthy(elif_value.val)
                 THEN Scanned("", Append(evaluated, i), "elif", i, elif_branches[i][2])
                 ELSE ScanElifs(s, i + 1, Append(evaluated, i))

ScanIf(s) ==
    LET condition_value == EvalExpr(s.e, environment, current_function_context,
                                    visible)
    IN  IF condition_value.err # ""
        THEN Scanned(condition_value.err, <<0>>, "none", 0, <<>>)
        ELSE IF Truthy(condition_value.val)
        THEN Scanned("", <<0>>, "then", 0, s.args[1])
        ELSE ScanElifs(s, 1, <<0>>)

(* Stmt::If, up to the start of the chosen branch; the frame of the branch *)
(* remembers the statement, the scan and the state the scan was made in    *)
ExecIf ==
    \E s \in Candidates :
        /\ s.op = "If"
        /\ LET scan == ScanIf(s)
               frame == [fn |-> 0, kind |-> "if", name |-> Who,
                         body |-> scan.body, pc |-> 1,
                         env0 |-> environment, ctx0 |-> current_function_context,
                         wrote |-> EmptyMap, touched |-> {},
                         of |-> s, scan |-> scan]
           IN  /\ stack' = IF scan.err # "" THEN <<>> ELSE Append(stack, frame)
               /\ last' = [stmt |-> s, who |-> Who, res |-> scan.err,
                           val |-> NilV, argv |-> scan.evaluated, inits |-> <<>>,
                           phase |-> scan.branch]
        /\ UNCHANGED <<environment, visible, initialized_visible,
                       visible_definitions, current_function_context, argsFirst,
                       initEvals, initAborted>>

(* Stmt::If once the statements of the chosen branch have run: Ok(())      *)
IfReturn ==
    /\ Len(stack) > 1
    /\ Top.fn = 0
    /\ Top.kind = "if"
    /\ Top.pc > Len(BodyOf(Top))
    /\ LET rest == SubSeq(stack, 1, Len(stack) - 1)
       IN  stack' = [Advance(rest) EXCEPT
                        ![Len(rest)].touched = @ \cup Top.touched]
    /\ last' = Log(IfEndS, "", NilV, <<>>, <<>>, "")
    /\ UNCHANGED <<environment, visible, initialized_visible,
                   visible_definitions, current_function_context, argsFirst,
                   initEvals, initAborted>>

(* the body of an If branch: it leaves its mark in r *)
Mark(n) == <<AllocS("r", LitE(n))>>

(* The batches of the control-flow program.  u is bound by no statement,   *)
(* so evaluating or reading it fails; late is assigned only by statements  *)
(* that follow a failing one.                                              *)
FlowBatches == <<
    <<AllocS("c", LitE(0))>>, <<AllocS("c", LitE(1))>>,
    <<AllocS("d", LitE(0))>>, <<AllocS("d", LitE(1))>>,
    <<IfS(VarE("c"), Mark(1),
          << <<VarE("d"), Mark(2)>>, <<VarE("u"), Mark(3)>> >>,
          Some(Mark(4)))>>,
    <<IfS(VarE("d"), Mark(5), << <<VarE("c"), Mark(6)>> >>, Some(Mark(7)))>>,
    <<IfS(VarE("c"), Mark(8), <<>>, None)>>,
    <<AllocS("p", LitE(1)), ReadS("u"), AllocS("late", LitE(1))>>,
    <<VisibleS("b", BlockDecl["b"]),
      IfS(LitE(1), <<AllocS("q", LitE(1)), ReadS("u")>>, <<>>, None),
      AllocS("late", LitE(2))>>,
    <<AllocS("p", LitE(2)), ReadS("p")>> >>

InterpretFlow == Interpret(FlowBatches)

BatchVariable == stack # <<>> /\ ExecVariable

BatchVisible == stack # <<>> /\ ExecVisible

NextFlow ==
    \/ InterpretFlow
    \/ InterpretReturn
    \/ BatchAllocateVariable
    \/ BatchVariable
    \/ BatchVisible
    \/ ExecIf
    \/ IfReturn

SpecFlow == Init /\ [][NextFlow]_vars

----------------------------------------------------------------------------
(* Calls on two blocks, nested calls and failing bodies                    *)

CallBatches == <<
    <<VisibleS("b1", BlockDecl["b1"])>>, <<VisibleS("b2", BlockDecl["b2"])>>,
    <<LabelOf(<<8, 9, 10, 11>>)>>,
    <<CallS("both", <<>>)>>, <<CallS("kill", <<>>)>>, <<CallS("wrap", <<>>)>>,
    <<ReadS("x")>> >>

InterpretCalls == Interpret(CallBatches)

BatchFunctionCall == stack # <<>> /\ FunctionCall

NextCalls ==
    \/ InterpretCalls
    \/ InterpretReturn
    \/ BatchVisible
    \/ BatchLabel
    \/ BatchVariable
    \/ BatchAllocateVariable
    \/ ExecSmartKill
    \/ BatchFunctionCall
    \/ FunctionReturn

SpecCalls == Init /\ [][NextCalls]_vars

----------------------------------------------------------------------------
(* Structs: StructDef, StructInstantiation, MethodCall, MemberAssign       *)

(* Value::StructDef and Value::StructInstance: an instance carries the     *)
(* name and methods of its struct (the row of StructDecls) and its fields  *)
StructDefV(id) == [t |-> "StructDef", v |-> id]

InstanceV(id, fields) == [t |-> "StructInstance", v |-> [struct |-> id, fields |-> fields]]

(* target = struct_name::method_name(args) *)
NewS(target, struct_name, method_name, args) ==
    [op |-> "New", name |-> target, e |-> NoE,
     args |-> <<struct_name, method_name, args>>]

(* object.method(args) *)
MethodCallS(object, method, args) ==
    [op |-> "MethodCall", name |-> method, e |-> object, args |-> args]

(* object.member = value *)
MemberAssignS(object, member, value) ==
    [op |-> "MemberAssign", name |-> member, e |-> object, args |-> <<value>>]

StructDefS(id) == [op |-> "StructDef", name |-> "", e |-> NoE, args |-> <<id>>]

(* history markers: a constructor / a method body has completed            *)
NewEndS(target) == [op |-> "NewEnd", name |-> target, e |-> NoE, args |-> <<>>]

MethodEndS(method) == [op |-> "MethodEnd", name |-> method, e |-> NoE, args |-> <<>>]

(* The struct declarations of the struct program.  P has a constructor     *)
(* that keeps its first argument, a second entry point make, and a method  *)
(* set; Q has no constructor; R's constructor instantiates Q in its body   *)
(* and R's method m1 calls a method on b in its body.                      *)
StructDecls == <<
    [name |-> "P",
     methods |-> <<
        [name |-> "constructor", params |-> <<"self", "x", "y">>,
         body |-> <<MemberAssignS(VarE("self"), "x", VarE("x"))>>],
        [name |-> "make", params |-> <<"self">>, body |-> <<>>],
        [name |-> "set", params |-> <<"self", "v">>,
         body |-> <<MemberAssignS(VarE("self"), "f", VarE("v"))>>] >>],
    [name |-> "Q",
     methods |-> <<
        [name |-> "init", params |-> <<"self">>, body |-> <<>>] >>],
    [name |-> "R",
     methods |-> <<
        [name |-> "constructor", params |-> <<"self", "x">>,
         body |-> <<MemberAssignS(VarE("self"), "x", VarE("x")),
                    NewS("t", "Q", "init", <<>>)>>],
        [name |-> "make", params |-> <<"self">>, body |-> <<>>],
        [name |-> "m1", params |-> <<"self">>,
         body |-> <<MethodCallS(VarE("b"), "set", <<LitE(5)>>),
                    MemberAssignS(VarE("self"), "g", LitE(7))>>] >>] >>

FieldNames == {"x", "f", "g"}

(* a lookup under the method name as written                              *)
LookupNameAsWritten(method_name) == method_name

(* the key StructInstantiation looks the method up under: ::new(...) is    *)
(* mapped to constructor(...)                                              *)
LookupName(method_name) ==
    IF method_name = "new" THEN "constructor" ELSE method_name

(* position of the first method called name in methods, 0 when absent     *)
FindMethod(methods, name) ==
    LET hits == {i \in 1..Len(methods) : methods[i].name = name}
    IN  IF hits = {} THEN 0 ELSE MinOf(hits)

(* the parameters bound from the call-site arguments: all but a leading    *)
(* self                                                                    *)
BoundParams(params) ==
    IF params # <<>> /\ params[1] = "self"
    THEN SubSeq(params, 2, Len(params))
    ELSE params

(* parameters bound to the arguments by position, each argument evaluated  *)
(* right before its define; a parameter without an argument stays unbound  *)
RECURSIVE BindPositional(_, _, _, _)
BindPositional(scopes, params, args, i) ==
    IF i > Len(params) \/ i > Len(args)
    THEN [err |-> "", env |-> scopes]
    ELSE LET arg_value == EvalExpr(args[i], scopes, current_function_context, visible)
         IN  IF arg_value.err # ""
             THEN [err |-> arg_value.err, env |-> scopes]
             ELSE LET r == Define(scopes, params[i], arg_value.val)
                  IN  IF r.err # "" THEN r
                      ELSE BindPositional(r.env, params, args, i + 1)

(* the frame of a constructor or method body; self0 is the instance bound  *)
(* to self on entry                                                        *)
BodyFrame(kind, s, id, body, self0) ==
    [fn |-> 0, kind |-> kind, name |-> StructDecls[id].name, body |-> body,
     pc |-> 1, env0 |-> environment, ctx0 |-> current_function_context,
     wrote |-> EmptyMap, touched |-> {}, of |-> s, self0 |-> self0]

(* a handler of the struct program: only the binding store, the native     *)
(* stack and the history change                                            *)
StructStep(env, stk, entry) ==
    /\ environment' = env
    /\ stack' = stk
    /\ last' = entry
    /\ UNCHANGED <<visible, initialized_visible, visible_definitions,
                   current_function_context, argsFirst, initEvals, initAborted>>

(* Stmt::StructDef *)
ExecStructDef ==
    \E s \in Candidates :
        /\ s.op = "StructDef"
        /\ LET r == Define(environment, StructDecls[s.args[1]].name,
                           StructDefV(s.args[1]))
           IN  StructStep(r.env, After(r.err), Log(s, r.err, NilV, <<>>, <<>>, ""))

(* Expr::StructInstantiation, up to the start of the constructor body.     *)
(* The history keeps the struct name, the method name and the lookup key   *)
(* (what the error message names).                                         *)
ExecNew ==
    \E s \in Candidates :
        /\ s.op = "New"
        /\ Len(environment) < MaxDepth
        /\ LET struct_name == s.args[1]
               method_name == s.args[2]
               args == s.args[3]
               struct_value == Get(environment, struct_name)
               lookup_name == LookupName(method_name)
               named == <<struct_name, method_name, lookup_name>>
               fail(err, env) == StructStep(env, <<>>, Log(s, err, NilV, named, <<>>, ""))
           IN  IF struct_value.err # ""
               THEN fail(struct_value.err, environment)
               ELSE IF struct_value.val.t # "StructDef"
               THEN fail("NotStructDef", environment)
               ELSE
               LET id == struct_value.val.v
                   k == FindMethod(StructDecls[id].methods, lookup_name)
               IN  IF k = 0
                   THEN fail("NoMethod", environment)
                   ELSE
                   LET constructor == StructDecls[id].methods[k]
                       instance == InstanceV(id, EmptyMap)
                       bound_self == Define(PushScope(environment), "self", instance)
                       bound == BindPositional(bound_self.env,
                                               BoundParams(constructor.params), args, 1)
                   IN  IF bound_self.err # ""
                       THEN fail(bound_self.err, bound_self.env)
                       ELSE IF bound.err # ""
                       THEN fail(bound.err, bound.env)
                       ELSE StructStep(bound.env,
                                Append(stack, BodyFrame("new", s, id, constructor.body,
                                                        instance)),
                                Log(s, "", NilV, named, <<>>, "body"))

(* Expr::StructInstantiation once the constructor body has completed,      *)
(* followed by the assignment of the instance to the target                *)
NewReturn ==
    /\ stack # <<>>
    /\ Top.fn = 0
    /\ Top.kind = "new"
    /\ Top.pc > Len(BodyOf(Top))
    /\ LET self_value == Get(environment, "self")
           popped == PopScope(environment)
           rest == SubSeq(stack, 1, Len(stack) - 1)
           target == Top.of.name
           done(err, env, val) ==
               StructStep(env, IF err # "" THEN <<>> ELSE Advance(rest),
                          Log(NewEndS(target), err, val, <<>>, <<>>, ""))
       IN  IF self_value.err # ""
           THEN done(self_value.err, popped, NilV)
           ELSE IF self_value.val.t # "StructInstance"
           THEN done("SelfOverwritten", popped, NilV)
           ELSE LET r == Define(popped, target, self_value.val)
                IN  done(r.err, r.env, self_value.val)

(* the fields of an instance as the (name, value) pairs the injection loop *)
(* defines, in the iteration order `order` of the HashMap                  *)
FieldPairs(fields, order) ==
    LET names == SelectSeq(order, LAMBDA n : n \in DOMAIN fields)
    IN  [k \in 1..Len(names) |-> <<names[k], fields[names[k]]>>]

(* Expr::MethodCall, up to the start of the method body                    *)
ExecMethodCall ==
    \E s \in Candidates, order \in Perms(FieldNames) :
        /\ s.op = "MethodCall"
        /\ Len(environment) < MaxDepth
        /\ LET obj_value == EvalExpr(s.e, environment, current_function_context, visible)
               fail(err, env) == StructStep(env, <<>>, Log(s, err, NilV, <<>>, <<>>, ""))
           IN  IF obj_value.err # ""
               THEN fail(obj_value.err, environment)
               ELSE IF obj_value.val.t # "StructInstance"
               THEN fail("NotStruct", environment)
               ELSE
               LET instance == obj_value.val
                   id == instance.v.struct
                   k == FindMethod(StructDecls[id].methods, s.name)
               IN  IF k = 0
                   THEN fail("NoMethod", environment)
                   ELSE
                   LET method_def == StructDecls[id].methods[k]
                       bound_self == Define(PushScope(environment), "self", instance)
                       injected == DefineAll(bound_self.env,
                                             FieldPairs(instance.v.fields, order), 1)
                       bound == BindPositional(injected.env,
                                               BoundParams(method_def.params), s.args, 1)
                   IN  IF bound_self.err # ""
                       THEN fail(bound_self.err, bound_self.env)
                       ELSE IF injected.err # ""
                       THEN fail(injected.err, injected.env)
                       ELSE IF bound.err # ""
                       THEN fail(bound.err, bound.env)
                       ELSE StructStep(bound.env,
                                Append(stack, BodyFrame("method", s, id, method_def.body,
                                                        instance)),
                                Log(s, "", NilV, <<>>, <<>>, "body"))

(* the fallback of MethodCall when self no longer holds an instance: the   *)
(* fields of the instance that resolve take the value they resolve to      *)
FieldsFromScope(instance, scopes) ==
    InstanceV(instance.v.struct,
              [n \in DOMAIN instance.v.fields |->
                  IF Exists(scopes, n) THEN Get(scopes, n).val
                  ELSE instance.v.fields[n]])

(* a MethodCall that drops the write-back to the variable                  *)
MethodReturnNoWriteBack ==
    /\ stack # <<>>
    /\ Top.fn = 0
    /\ Top.kind = "method"
    /\ Top.pc > Len(BodyOf(Top))
    /\ StructStep(PopScope(environment), Advance(SubSeq(stack, 1, Len(stack) - 1)),
                  Log(MethodEndS(Top.of.name), "", NilV, <<>>, <<>>, ""))

(* Expr::MethodCall once the method body has completed                     *)
MethodReturn ==
    /\ stack # <<>>
    /\ Top.fn = 0
    /\ Top.kind = "method"
    /\ Top.pc > Len(BodyOf(Top))
    /\ LET self_value == Get(environment, "self")
           updated_instance ==
               IF self_value.err = "" /\ self_value.val.t = "StructInstance"
               THEN self_value.val
               ELSE FieldsFromScope(Top.self0, environment)
           popped == PopScope(environment)
           rest == SubSeq(stack, 1, Len(stack) - 1)
           object == Top.of.e
           r == IF object.k = "Var"
                THEN Define(popped, object.name, updated_instance)
                ELSE [err |-> "", env |-> popped]
       IN  StructStep(r.env, IF r.err # "" THEN <<>> ELSE Advance(rest),
                      Log(MethodEndS(Top.of.name), r.err, NilV, <<>>, <<>>, ""))

(* MemberAssign that accepts any object expression it can evaluate to an   *)
(* instance, and stores nothing when the object is not a variable          *)
ExecMemberAssignAnyShape ==
    \E s \in Candidates :
        /\ s.op = "MemberAssign"
        /\ LET obj_value == EvalExpr(s.e, environment, current_function_context, visible)
               new_value == EvalExpr(s.args[1], environment, current_function_context,
                                     visible)
               done(err, env) == StructStep(env, After(err), Log(s, err, NilV, <<>>, <<>>, ""))
           IN  IF obj_value.err # ""
               THEN done(obj_value.err, environment)
               ELSE IF obj_value.val.t # "StructInstance"
               THEN done("NotStruct", environment)
               ELSE IF new_value.err # ""
               THEN done(new_value.err, environment)
               ELSE IF s.e.k # "Var"
               THEN done("", environment)
               ELSE LET r == Define(environment, s.e.name,
                                    InstanceV(obj_value.val.v.struct,
                                              Put(obj_value.val.v.fields, s.name,
                                                  new_value.val)))
                    IN  done(r.err, r.env)

(* Expr::MemberAssign.  The branch for self differs from the general one   *)
(* only when self holds no instance, where it falls through to it.         *)
ExecMemberAssign ==
    \E s \in Candidates :
        /\ s.op = "MemberAssign"
        /\ LET done(err, env) == StructStep(env, After(err), Log(s, err, NilV, <<>>, <<>>, ""))
           IN  IF s.e.k # "Var"
               THEN done("NotSimpleVariable", environment)
               ELSE
               LET obj_value == Get(environment, s.e.name)
                   new_value == EvalExpr(s.args[1], environment,
                                         current_function_context, visible)
               IN  IF obj_value.err # ""
                   THEN done(obj_value.err, environment)
                   ELSE IF obj_value.val.t # "StructInstance"
                   THEN done("NotStruct", environment)
                   ELSE IF new_value.err # ""
                   THEN done(new_value.err, environment)
                   ELSE LET r == Define(environment, s.e.name,
                                        InstanceV(obj_value.val.v.struct,
                                                  Put(obj_value.val.v.fields, s.name,
                                                      new_value.val)))
                        IN  done(r.err, r.env)

(* The batches of the struct program.  build is no method of P, Q has no   *)
(* constructor, n holds an Int.                                            *)
StructBatches == <<
    <<StructDefS(1)>>, <<StructDefS(2)>>,
    <<NewS("p", "P", "new", <<LitE(3), LitE(4)>>)>>,
    <<NewS("p", "P", "make", <<>>)>>,
    <<NewS("p", "P", "build", <<>>)>>,
    <<NewS("q", "Q", "new", <<>>)>>,
    <<AllocS("n", LitE(1))>>,
    <<MethodCallS(VarE("p"), "set", <<LitE(5)>>)>>,
    <<MethodCallS(VarE("p"), "nope", <<>>)>>,
    <<MethodCallS(VarE("n"), "set", <<LitE(5)>>)>>,
    <<MemberAssignS(VarE("p"), "g", LitE(7))>>,
    <<MemberAssignS(VarE("p"), "x", LitE(7))>>,
    <<MemberAssignS(VarE("n"), "g", LitE(7))>>,
    <<MemberAssignS(LitE(0), "g", LitE(7))>>,
    <<SmartConstS("p")>>, <<SmartLockS("p")>> >>

InterpretStruct == Interpret(StructBatches)

NextStruct ==
    \/ InterpretStruct
    \/ InterpretReturn
    \/ BatchAllocateVariable
    \/ BatchSmartConst
    \/ ExecSmartLock
    \/ ExecStructDef
    \/ ExecNew
    \/ NewReturn
    \/ ExecMethodCall
    \/ MethodReturn
    \/ ExecMemberAssign

SpecStruct == Init /\ [][NextStruct]_vars

----------------------------------------------------------------------------
(* The binding store on its own: the methods of Environment                *)
(* (values/values.rs) called with every name and value of EnvNames and     *)
(* EnvValues, in every order.  Only environment and last change.           *)

EnvNames == {"x"}

EnvValues == {IntV(1), IntV(2)}

(* the call name(args) of a method of Environment, as last.stmt records it *)
EnvCall(method, name, value) ==
    [op |-> method, name |-> name, e |-> value, args |-> <<>>]

(* environment and last after the call; nothing else changes *)
EnvDone(call, r) ==
    /\ stack = <<>>
    /\ environment' = r.env
    /\ last' = Log(call, r.err, NilV, <<>>, <<>>, "")
    /\ UNCHANGED <<visible, initialized_visible, visible_definitions,
                   current_function_context, stack, argsFirst, initEvals,
                   initAborted>>

EnvDefine ==
    \E n \in EnvNames, v \in EnvValues :
        EnvDone(EnvCall("define", n, v), Define(environment, n, v))

EnvDefineConstant ==
    \E n \in EnvNames, v \in EnvValues :
        EnvDone(EnvCall("define_constant", n, v),
                [err |-> "", env |-> DefineConstant(environment, n, v)])

EnvDefineSmartLock ==
    \E n \in EnvNames, v \in EnvValues :
        EnvDone(EnvCall("define_smart_lock", n, v),
                [err |-> "", env |-> DefineSmartLock(environment, n, v)])

EnvDefineSmartUnclock ==
    \E n \in EnvNames, v \in EnvValues :
        EnvDone(EnvCall("define_smart_unclock", n, v),
                [err |-> "", env |-> DefineSmartUnclock(environment, n, v)])

EnvDeleteVariable ==
    \E n \in EnvNames :
        EnvDone(EnvCall("delete_variable", n, NilV), DeleteVariable(environment, n))

EnvPushScope ==
    /\ Len(environment) < MaxDepth
    /\ EnvDone(EnvCall("push_scope", "", NilV),
               [err |-> "", env |-> PushScope(environment)])

EnvPopScope ==
    EnvDone(EnvCall("pop_scope", "", NilV),
            [err |-> "", env |-> PopScope(environment)])

NextEnvironment ==
    \/ EnvDefine
    \/ EnvDefineConstant
    \/ EnvDefineSmartLock
    \/ EnvDefineSmartUnclock
    \/ EnvDeleteVariable
    \/ EnvPushScope
    \/ EnvPopScope

SpecEnvironment == Init /\ [][NextEnvironment]_vars

----------------------------------------------------------------------------
(* the (scope, name) pairs that are bound *)
Bound(scopes) ==
    {<<i, n>> \in (1..Len(scopes)) \X (EnvNames \cup {"x"}) : n \in DOMAIN scopes[i]}

(* the scope stack with only its k outermost scopes: what is left when the *)
(* inner ones have been popped                                             *)
Outer(scopes, k) == SubSeq(scopes, 1, k)

(* the step is a successful call of the Environment method *)
Called(method) == last'.stmt.op = method /\ last'.res = ""

(* C11: search-then-update-or-introduce.  A successful define(name, v)     *)
(* with name bound in some scope creates no binding and updates the        *)
(* innermost binding of name, so that name resolves to v now and after the *)
(* scopes inside the one that holds it are popped; with name bound in no   *)
(* scope it adds one plain binding, in the current scope, and name is      *)
(* undefined again once that scope is popped.                              *)
C11_DefineSearchThenUpdate ==
    [][ Called("define") =>
          LET n == last'.stmt.name
              v == last'.stmt.e
              i == ScopeOf(environment, n)
          IN  IF i # 0
              THEN /\ Bound(environment') = Bound(environment)
                   /\ \A k \in i..Len(environment) :
                          Get(Outer(environment', k), n) = [err |-> "", val |-> v]
                   /\ \A k \in 1..(i - 1) :
                          Outer(environment', k) = Outer(environment, k)
              ELSE /\ Bound(environment') =
                          Bound(environment) \cup {<<Len(environment), n>>}
                   /\ environment'[Len(environment)][n] = Binding(v, FALSE, FALSE)
                   /\ Get(environment', n) = [err |-> "", val |-> v]
                   /\ \A k \in 1..(Len(environment) - 1) :
                          ~Exists(Outer(environment', k), n) ]_vars

(* C11 witness: define("x", 2) with an inner scope pushed has updated the  *)
(* binding of x held by the global scope.                                  *)
C11_Witness ==
    /\ last.stmt = EnvCall("define", "x", IntV(2))
    /\ last.res = ""
    /\ Len(environment) = 2
    /\ "x" \notin DOMAIN environment[2]
    /\ "x" \in DOMAIN environment[1]
    /\ environment[1]["x"].value = IntV(2)

----------------------------------------------------------------------------
(* the binding name resolves to (the innermost one) is flagged constant /  *)
(* smart-locked                                                            *)
IsConstant(scopes, name) ==
    Exists(scopes, name) /\ scopes[ScopeOf(scopes, name)][name].is_constant

IsSmartLocked(scopes, name) ==
    Exists(scopes, name) /\ scopes[ScopeOf(scopes, name)][name].smart_lock

(* C12: constant and lock guards.  define of a name whose binding is       *)
(* constant fails with CannotReassignConstant, of one whose binding is     *)
(* smart-locked with CannotReassignSmartLocked; delete_variable fails with *)
(* CannotDeleteConstant / CannotDeleteSmartLocked, and with                *)
(* CannotDeleteUndefined when the name is bound in no scope; every failing *)
(* define or delete_variable leaves the whole scope stack as it was.       *)
C12_Guards ==
    [][ LET n == last'.stmt.name
            guarded == last'.stmt.op \in {"define", "delete_variable"}
        IN  /\ (last'.stmt.op = "define" /\ IsConstant(environment, n))
                  => last'.res = "CannotReassignConstant"
            /\ (last'.stmt.op = "define" /\ IsSmartLocked(environment, n)
                                          /\ ~IsConstant(environment, n))
                  => last'.res = "CannotReassignSmartLocked"
            /\ (last'.stmt.op = "delete_variable" /\ IsConstant(environment, n))
                  => last'.res = "CannotDeleteConstant"
            /\ (last'.stmt.op = "delete_variable" /\ IsSmartLocked(environment, n)
                                                   /\ ~IsConstant(environment, n))
                  => last'.res = "CannotDeleteSmartLocked"
            /\ (last'.stmt.op = "delete_variable" /\ ~Exists(environment, n))
                  => last'.res = "CannotDeleteUndefined"
            /\ (guarded /\ last'.res # "") => environment' = environment ]_vars

(* C12 witness: deleting a smart-locked x held by an outer scope has been  *)
(* refused and x is still there, locked.                                   *)
C12_Witness ==
    /\ last.stmt = EnvCall("delete_variable", "x", NilV)
    /\ last.res = "CannotDeleteSmartLocked"
    /\ Len(environment) = 2
    /\ "x" \notin DOMAIN environment[2]
    /\ IsSmartLocked(environment, "x")

----------------------------------------------------------------------------
(* C17: the scope stack always contains at least the global scope.         *)
(* Interpreter::new starts with exactly one scope and no permitted-blocks  *)
(* context; the scope depth is at least 1 in every state; pop_scope at     *)
(* depth 1 leaves the scope stack, and so every global binding, unchanged. *)
C17_GlobalScopeStays ==
    /\ Len(environment) = 1 /\ current_function_context = None
    /\ [](Len(environment) >= 1)
    /\ [][ (Called("pop_scope") /\ Len(environment) = 1)
           => environment' = environment ]_vars

(* C17 witness: pop_scope has been called at depth 1 with x bound in the   *)
(* global scope, and x is still bound.                                     *)
C17_Witness ==
    /\ last.stmt = EnvCall("pop_scope", "", NilV)
    /\ Len(environment) = 1
    /\ "x" \in DOMAIN environment[1]

----------------------------------------------------------------------------
(* Binding flags and Jump, statement by statement (SpecFlags)              *)

FlagStatements ==
    {"Alloc", "SmartLock", "SmartUnlock", "SmartKill", "SmartRevive", "SmartConst"}

(* the current scope holds name *)
HeldHere(scopes, name) == name \in DOMAIN scopes[Len(scopes)]

(* C13: constancy is permanent.  When the current scope holds a constant   *)
(* binding of a name, no AllocateVariable, SmartLock, SmartUnlock,         *)
(* SmartKill, SmartRevive or SmartConst statement executed in that scope   *)
(* changes the binding's value, removes it or clears its constant flag.    *)
C13_ConstancyPermanent ==
    [][ LET d == Len(environment)
            n == last'.stmt.name
        IN  ( /\ last'.stmt.op \in FlagStatements
              /\ Len(environment') = d
              /\ HeldHere(environment, n)
              /\ environment[d][n].is_constant )
            => /\ HeldHere(environment', n)
               /\ environment'[d][n].is_constant
               /\ environment'[d][n].value = environment[d][n].value ]_vars

(* C14: the two flags are set independently.  A successful SmartLock of a  *)
(* name whose binding is constant, or SmartConst of a name whose binding   *)
(* is smart-locked, leaves the name with a binding that carries both       *)
(* flags, on which define and delete_variable fail with the constant       *)
(* error kind.                                                             *)
C14_FlagsIndependent ==
    [][ LET n == last'.stmt.name
        IN  ( /\ last'.res = ""
              /\ \/ last'.stmt.op = "SmartLock" /\ IsConstant(environment, n)
                 \/ last'.stmt.op = "SmartConst" /\ IsSmartLocked(environment, n) )
            => /\ IsConstant(environment', n)
               /\ IsSmartLocked(environment', n)
               /\ Define(environment', n, NilV).err = "CannotReassignConstant"
               /\ DeleteVariable(environment', n).err = "CannotDeleteConstant" ]_vars

(* C15 as stated: SmartRevive succeeds whatever the prior state of the     *)
(* variable, and afterwards the variable resolves to Nil.                  *)
C15_ReviveUnconditional ==
    [][ last'.stmt.op = "SmartRevive"
        => /\ last'.res = ""
           /\ Get(environment', last'.stmt.name) = [err |-> "", val |-> NilV] ]_vars

(* C15, amended: SmartRevive goes through define.  When the variable is    *)
(* bound in no scope, or its innermost binding is plain, the statement     *)
(* succeeds and the variable resolves to Nil through a plain binding;      *)
(* when its innermost binding is constant the statement fails with         *)
(* CannotReassignConstant, when it is smart-locked with                    *)
(* CannotReassignSmartLocked, and the scope stack is left as it was.       *)
C15_ReviveGuarded ==
    [][ last'.stmt.op = "SmartRevive"
        => LET n == last'.stmt.name
           IN  IF IsConstant(environment, n)
               THEN last'.res = "CannotReassignConstant" /\ environment' = environment
               ELSE IF IsSmartLocked(environment, n)
               THEN last'.res = "CannotReassignSmartLocked" /\ environment' = environment
               ELSE /\ last'.res = ""
                    /\ Get(environment', n) = [err |-> "", val |-> NilV]
                    /\ ~IsConstant(environment', n)
                    /\ ~IsSmartLocked(environment', n) ]_vars

(* C15 witness: SmartRevive of a smart-locked x has been refused and x     *)
(* still resolves to its value.                                            *)
C15_Witness ==
    /\ last.stmt = SmartReviveS("x")
    /\ last.res = "CannotReassignSmartLocked"
    /\ IsSmartLocked(environment, "x")
    /\ Get(environment, "x").val = IntV(1)

C18_JumpValidation ==
    [][ /\ last'.stmt.op = "Jump"
           => LET target_value == Get(environment, last'.stmt.name)
              IN  /\ (target_value.err = "" /\ target_value.val.t # "ControlFlow")
                     => /\ last'.res = "NotJumpTarget"
                        /\ environment' = environment
                        /\ stack' = <<>>
                  /\ (target_value.err = "" /\ target_value.val.t = "ControlFlow")
                     => /\ last'.res = ""
                        /\ environment' = Append(environment, EmptyMap)
                        /\ Len(stack') = Len(stack) + 1
                        /\ stack'[Len(stack')].fn = target_value.val.v
                        /\ stack'[Len(stack')].pc = 1
        /\ last'.stmt.op = "JumpEnd"
           => /\ Top.pc = Len(BodyOf(Top)) + 1
              /\ Len(environment') = Len(Top.env0)
              /\ Len(stack') = Len(stack) - 1 ]_vars

(* C18 witness: a Jump to f, bound to a Function, has been refused.        *)
C18_Witness ==
    /\ last.stmt = JumpS("f")
    /\ last.res = "NotJumpTarget"
    /\ Get(environment, "f").val.t = "Function"
    /\ stack = <<>>

----------------------------------------------------------------------------
(* If and interpret, statement by statement (SpecFlow)                     *)

(* the conditions of an If in source order: the primary one, then the one  *)
(* of each elif clause                                                     *)
Conditions(s) == <<s.e>> \o [i \in 1..Len(s.args[2]) |-> s.args[2][i][1]]

(* the bodies in the same order, the else body (when present) last         *)
Bodies(s) ==
    <<s.args[1]>> \o [i \in 1..Len(s.args[2]) |-> s.args[2][i][2]]
                  \o (IF s.args[3] # None THEN <<Unwrap(s.args[3])>> ELSE <<>>)

(* condition k of s is truthy / falsy in the given binding store           *)
Holds(s, k, scopes) ==
    LET v == EvalExpr(Conditions(s)[k], scopes, current_function_context, visible)
    IN  v.err = "" /\ Truthy(v.val)

Fails(s, k, scopes) ==
    LET v == EvalExpr(Conditions(s)[k], scopes, current_function_context, visible)
    IN  v.err = "" /\ ~Truthy(v.val)

Errs(s, k, scopes) ==
    EvalExpr(Conditions(s)[k], scopes, current_function_context, visible).err # ""

(* C19: If / elif / else runs at most one branch.  A successful If has     *)
(* evaluated the conditions in order, primary first, up to and including   *)
(* the first truthy one and none after it; every condition before that one *)
(* was falsy; the statements run are those of the body of the first truthy *)
(* condition, or of the else body when every condition was evaluated and   *)
(* falsy and an else body is present, and no statement otherwise; while    *)
(* the branch runs, each statement executed is the next one of that body,  *)
(* and when the If completes the variables written are exactly those the   *)
(* chosen body assigns.  An If fails in its scan only on a condition whose *)
(* evaluation fails with every condition before it falsy.                  *)
C19_OneBranch ==
    [][ /\ (last'.stmt.op = "If" /\ last'.res # "")
           => LET s == last'.stmt
                  k == Len(last'.argv)
              IN  /\ k \in 1..Len(Conditions(s))
                  /\ \A j \in 1..(k - 1) : Fails(s, j, environment)
                  /\ Errs(s, k, environment)
                  /\ environment' = environment
                  /\ stack' = <<>>
        /\ (last'.stmt.op = "If" /\ last'.res = "")
           => LET s == last'.stmt
                  n == Len(Conditions(s))
                  evaluated == last'.argv
                  k == Len(evaluated)
                  chosen == stack'[Len(stack')].body
              IN  /\ k \in 1..n
                  /\ \A j \in 1..k : evaluated[j] = j - 1
                  /\ \A j \in 1..(k - 1) : Fails(s, j, environment)
                  /\ Holds(s, k, environment) => chosen = Bodies(s)[k]
                  /\ Fails(s, k, environment)
                     => /\ k = n
                        /\ chosen = IF s.args[3] # None THEN Bodies(s)[n + 1] ELSE <<>>
                  /\ (last'.phase = "else")
                     <=> (s.args[3] # None /\ \A j \in 1..n : Fails(s, j, environment))
                  /\ environment' = environment
        /\ (stack # <<>> /\ Top.fn = 0 /\ Top.kind = "if" /\ last'.stmt.op # "IfEnd")
           => /\ Top.pc <= Len(Top.body)
              /\ last'.stmt = Top.body[Top.pc]
        /\ last'.stmt.op = "IfEnd"
           => /\ Top.pc = Len(Top.body) + 1
              /\ DOMAIN Top.wrote = {st.name : st \in {Top.body[j] : j \in 1..Len(Top.body)}}
              /\ Cardinality({b \in 1..Len(Bodies(Top.of)) :
                                /\ Bodies(Top.of)[b] = Top.body
                                /\ Top.body # <<>>}) <= 1 ]_vars

(* C19 witness: with d and c falsy the If whose conditions are d and c has *)
(* run its else body and completed: r = 7.                                 *)
C19_Witness ==
    /\ last.stmt = IfEndS
    /\ Get(environment, "c").val = IntV(0)
    /\ Get(environment, "d").val = IntV(0)
    /\ Get(environment, "r").val = IntV(7)

(* C20: interpret runs the statements of the batch in order and stops at   *)
(* the first failure.  Each statement executed at batch level is the one   *)
(* at the position the loop has reached, and a success moves the loop to   *)
(* the next position; a failure ends the whole interpret call, so that no  *)
(* statement placed after a failing one is ever executed (late is never    *)
(* bound); the failure is what the call returns; a failing step leaves     *)
(* every value written by the statements of the batch run so far, and the  *)
(* registration of every block they declared, in place; the next interpret *)
(* call starts from that binding store and registry.                       *)
C20_StopAtFirstFailure ==
    /\ [](~Exists(environment, "late"))
    /\ [][ /\ (stack # <<>> /\ Len(stack) = 1 /\ Top.kind = "interpret"
                 /\ last'.stmt.op \notin {"Ok", "IfEnd"})
              => /\ last'.stmt = Top.body[Top.pc]
                 /\ (last'.res = "" /\ last'.stmt.op # "If")
                    => (stack' # <<>> /\ stack'[1].pc = Top.pc + 1)
           /\ (stack # <<>> /\ last'.res # "")
              => /\ stack' = <<>>
                 /\ \A f \in 1..Len(stack) : \A n \in DOMAIN stack[f].wrote :
                        Get(environment', n) = [err |-> "", val |-> stack[f].wrote[n]]
                 /\ \A j \in 1..(stack[1].pc - 1) :
                        stack[1].body[j].op = "Visible"
                        => stack[1].body[j].name \in DOMAIN visible_definitions'
           /\ (stack = <<>>)
              => /\ stack' # <<>>
                 /\ stack'[1].pc = 1
                 /\ UNCHANGED <<environment, visible, visible_definitions,
                                initialized_visible>> ]_vars

(* C20 witness: the If of the second failing batch has failed after its    *)
(* body assigned q; the call has returned the failure, q and the block     *)
(* declared before the If are still there.                                 *)
C20_Witness ==
    /\ stack = <<>>
    /\ last.stmt = ReadS("u")
    /\ last.res = "UndefinedVariable"
    /\ Get(environment, "q") = [err |-> "", val |-> IntV(1)]
    /\ "b" \in DOMAIN visible_definitions

----------------------------------------------------------------------------
(* Calls, statement by statement (SpecCalls)                               *)

(* the positions in the native stack of the frames of running calls        *)
RunningCalls == {i \in 1..Len(stack) : stack[i].fn # 0}

(* C21: mid-call failure leak.  When a statement of the body of a called   *)
(* Function fails, the whole interpret call ends with that failure; the    *)
(* scope depth is then the depth from before the outermost running call    *)
(* plus one for every call that was running, the permitted-blocks field    *)
(* holds the list of the Function whose body statement failed, and the     *)
(* failing step changes no materialization: materializations change only   *)
(* when a block is declared, in the initialisation at a call's entry and   *)
(* in the write-back of a call that completes.                             *)
C21_MidCallLeak ==
    [][ /\ (RunningCalls # {} /\ last'.res # "")
           => /\ stack' = <<>>
              /\ Len(environment') =
                    Len(stack[MinOf(RunningCalls)].env0) + Cardinality(RunningCalls)
              /\ current_function_context' = Some(LabelItems[Top.fn].visible_blocks)
              /\ visible' = visible
        /\ visible' # visible
           => last'.stmt.op \in {"Visible", "Call", "Return"} ]_vars

(* C21 witness: deep, called from the body of wrap after wrap assigned      *)
(* x := 3, has failed on its read of u; two scopes are left on top of the  *)
(* global one, the field holds deep's (empty) list and b1 still has x = 1. *)
C21_Witness ==
    /\ stack = <<>>
    /\ last.stmt = ReadS("u")
    /\ last.who = "deep"
    /\ last.res = "UndefinedVariable"
    /\ Len(environment) = 3
    /\ Get(environment, "x").val = IntV(3)
    /\ current_function_context = Some(<<>>)
    /\ visible["b1"]["x"] = IntV(1)

----------------------------------------------------------------------------
(* the names a block's declaration lists *)
Declared(b) ==
    {visible_definitions[b][i][1] : i \in 1..Len(visible_definitions[b])}

(* C28: write-back never changes a materialization's key set.  The         *)
(* materialization of every initialized block has exactly the names of the *)
(* block's declaration as keys, in every state; the return of a call       *)
(* leaves the key set of every materialization as it was, gives a key of a *)
(* permitted block the value its name resolves to, and leaves a key whose  *)
(* name does not resolve, and every block that is not permitted, with the  *)
(* previous value.                                                         *)
C28_KeySetStable ==
    /\ [](\A b \in DOMAIN visible :
              (b \in DOMAIN initialized_visible /\ initialized_visible[b])
              => DOMAIN visible[b] = Declared(b))
    /\ [][ last'.stmt.op = "Return"
           => \A b \in DOMAIN visible :
                 /\ b \in DOMAIN visible'
                 /\ DOMAIN visible'[b] = DOMAIN visible[b]
                 /\ \A n \in DOMAIN visible[b] :
                       visible'[b][n] =
                          IF /\ \E i \in 1..Len(LabelItems[Top.fn].visible_blocks) :
                                    LabelItems[Top.fn].visible_blocks[i] = b
                             /\ Exists(environment, n)
                          THEN Get(environment, n).val
                          ELSE visible[b][n] ]_vars

(* C28 witness: kill has deleted x and introduced w in its scope and has   *)
(* returned; x resolves nowhere, and b1 still has the one key x with its   *)
(* value.                                                                  *)
C28_Witness ==
    /\ last.stmt = ReturnS("kill")
    /\ ~Exists(environment, "x")
    /\ ~Exists(environment, "w")
    /\ "b1" \in DOMAIN visible
    /\ DOMAIN visible["b1"] = {"x"}
    /\ visible["b1"]["x"] = IntV(1)

----------------------------------------------------------------------------
(* C29: block lookup order.  In the body of both, permitted on [b1, b2]    *)
(* which each declare x, with x bound by nothing else when the call was    *)
(* made, the read of x yields the value b1 holds for x; and the return of  *)
(* both, whose body does not assign x, leaves each block's x as it was.    *)
C29_FirstBlockWins ==
    [][ /\ ( /\ last'.stmt = ReadS("x")
             /\ stack # <<>>
             /\ Who = "both"
             /\ ~Exists(Top.env0, "x") )
           => /\ last'.res = ""
              /\ last'.val = visible["b1"]["x"]
        /\ (last'.stmt = ReturnS("both") /\ ~Exists(Top.env0, "x"))
           => visible' = visible ]_vars

----------------------------------------------------------------------------
(* Structs, statement by statement (SpecStruct)                            *)

(* the fields a body sets through member-assignment on self, each with the *)
(* call-site argument its value names: body statement self.f = v with v    *)
(* the i-th parameter after a leading self gives f the value of args[i]    *)
SetOnSelf(method_def, args) ==
    LET params == BoundParams(method_def.params)
        sets == {j \in 1..Len(method_def.body) :
                    /\ method_def.body[j].op = "MemberAssign"
                    /\ method_def.body[j].e = VarE("self")}
        arg(j) == args[CHOOSE i \in 1..Len(params) :
                          params[i] = method_def.body[j].args[1].name]
    IN  [f \in {method_def.body[j].name : j \in sets} |->
            LET j == CHOOSE j \in sets : method_def.body[j].name = f
            IN  IntV(arg(j).n)]

(* the method of the struct of frame that the frame runs *)
Running(frame, key) ==
    LET methods == StructDecls[frame.self0.v.struct].methods
    IN  methods[FindMethod(methods, key)]

(* C22: struct instantiation.  With S bound to a struct definition,        *)
(* S::m(args) looks the method up under constructor when m is new and      *)
(* under m otherwise; when S has no such method it fails naming S, m and   *)
(* the lookup key, with the scope stack as it was; otherwise the           *)
(* constructor body is started, and when it has completed the value        *)
(* returned is an instance of S whose fields are exactly those the body    *)
(* set through self, each holding the argument at the position of the      *)
(* parameter assigned to it, and the scope depth is the depth from before  *)
(* the instantiation.                                                      *)
C22_StructInstantiation ==
    [][ /\ ( /\ last'.stmt.op = "New"
             /\ Get(environment, last'.stmt.args[1]).err = ""
             /\ Get(environment, last'.stmt.args[1]).val.t = "StructDef" )
           => LET S == last'.stmt.args[1]
                  m == last'.stmt.args[2]
                  key == IF m = "new" THEN "constructor" ELSE m
                  decl == StructDecls[Get(environment, S).val.v]
              IN  /\ decl.name = S
                  /\ last'.argv = <<S, m, key>>
                  /\ (\A i \in 1..Len(decl.methods) : decl.methods[i].name # key)
                     => /\ last'.res = "NoMethod"
                        /\ environment' = environment
                        /\ stack' = <<>>
                  /\ (\E i \in 1..Len(decl.methods) : decl.methods[i].name = key)
                     => /\ last'.res = ""
                        /\ Len(stack') = Len(stack) + 1
                        /\ stack'[Len(stack')].body =
                              (CHOOSE md \in {decl.methods[i] : i \in 1..Len(decl.methods)} :
                                  md.name = key).body
        /\ last'.stmt.op = "NewEnd"
           => LET S == Top.of.args[1]
                  m == Top.of.args[2]
                  key == IF m = "new" THEN "constructor" ELSE m
              IN  /\ last'.val.t = "StructInstance"
                  /\ StructDecls[last'.val.v.struct].name = S
                  /\ last'.val.v.fields = SetOnSelf(Running(Top, key), Top.of.args[3])
                  /\ Len(environment') = Len(Top.env0) ]_vars

(* C22 witness: P::new(3, 4) has completed and p holds an instance of P    *)
(* with the single field x = 3.                                            *)
C22_Witness ==
    /\ last.stmt = NewEndS("p")
    /\ last.res = ""
    /\ Get(environment, "p").val = InstanceV(1, [f \in {"x"} |-> IntV(3)])
    /\ Len(environment) = 1

----------------------------------------------------------------------------
(* the instance with the fields of `fields` added to or replacing its own *)
WithFields(instance, fields) ==
    InstanceV(instance.v.struct,
              [f \in DOMAIN instance.v.fields \cup DOMAIN fields |->
                  IF f \in DOMAIN fields THEN fields[f] ELSE instance.v.fields[f]])

(* a MethodCall on a bare variable whose value is no instance, or an       *)
(* instance without the method, fails and pushes no scope                  *)
MethodCallRefused ==
    ( /\ last'.stmt.op = "MethodCall"
      /\ last'.stmt.e.k = "Var"
      /\ Get(environment, last'.stmt.e.name).err = "" )
    => LET obj_value == Get(environment, last'.stmt.e.name).val
           callable ==
               /\ obj_value.t = "StructInstance"
               /\ FindMethod(StructDecls[obj_value.v.struct].methods,
                             last'.stmt.name) # 0
       IN  IF callable
           THEN last'.res = "" /\ Len(environment') = Len(environment) + 1
           ELSE /\ last'.res \in {"NotStruct", "NoMethod"}
                /\ environment' = environment
                /\ stack' = <<>>

(* C23 as stated: a MethodCall on a bare variable obj that holds an        *)
(* instance with method m, whose body assigns self.f = v, leaves obj       *)
(* holding an instance with f == v when the body has completed, returns    *)
(* Nil and leaves the scope depth as before the call; on a non-instance or *)
(* an instance without m it fails without pushing a scope.                 *)
C23_MethodWriteBack ==
    [][ /\ MethodCallRefused
        /\ (last'.stmt.op = "MethodEnd" /\ Top.of.e.k = "Var")
           => /\ last'.res = ""
              /\ last'.val = NilV
              /\ Get(environment', Top.of.e.name).val =
                    WithFields(Top.self0,
                               SetOnSelf(Running(Top, Top.of.name), Top.of.args))
              /\ Len(environment') = Len(Top.env0) ]_vars

(* C23, amended: when the body has completed the scope pushed for the call *)
(* is popped, so that the depth is the one from before the call, and the   *)
(* instance held by self is written back to obj with define: when obj is   *)
(* neither constant nor smart-locked the call returns Nil and obj holds    *)
(* the instance with f == v and its other fields as before; when obj is    *)
(* constant or smart-locked the call fails with the reassignment error of  *)
(* that flag and obj keeps the instance it held.  On a non-instance or an  *)
(* instance without m the call fails without pushing a scope.              *)
C23_MethodWriteBackUnlessFlagged ==
    [][ /\ MethodCallRefused
        /\ (last'.stmt.op = "MethodEnd" /\ Top.of.e.k = "Var")
           => LET obj == Top.of.e.name
                  popped == PopScope(environment)
              IN  /\ Len(environment') = Len(Top.env0)
                  /\ IsConstant(popped, obj)
                     => /\ last'.res = "CannotReassignConstant"
                        /\ environment' = popped
                        /\ Get(environment', obj).val = Top.self0
                  /\ (IsSmartLocked(popped, obj) /\ ~IsConstant(popped, obj))
                     => /\ last'.res = "CannotReassignSmartLocked"
                        /\ environment' = popped
                        /\ Get(environment', obj).val = Top.self0
                  /\ (~IsSmartLocked(popped, obj) /\ ~IsConstant(popped, obj))
                     => /\ last'.res = ""
                        /\ last'.val = NilV
                        /\ Get(environment', obj).val =
                              WithFields(Top.self0,
                                         SetOnSelf(Running(Top, Top.of.name),
                                                   Top.of.args)) ]_vars

(* C23 witness: p.set(5) has completed on a p that holds x = 3 and g = 7:  *)
(* p now has f = 5 as well.                                                *)
C23_Witness ==
    /\ last.stmt = MethodEndS("set")
    /\ last.res = ""
    /\ Len(environment) = 1
    /\ Get(environment, "p").val =
          InstanceV(1, [f \in {"x", "g", "f"} |->
                           IF f = "x" THEN IntV(3) ELSE IF f = "g" THEN IntV(7)
                           ELSE IntV(5)])

----------------------------------------------------------------------------
(* C24: MemberAssign(object, member, value) succeeds exactly when object   *)
(* is a bare variable (self included) that resolves to a StructInstance    *)
(* through a binding that is neither constant nor smart-locked (and value  *)
(* evaluates): it then replaces, in the scope that holds the variable, the *)
(* instance by one with member set to the value and every other field as   *)
(* before, and changes nothing else; in every other case it fails and the  *)
(* scope stack, and so the stored instance, is unchanged.                  *)
C24_MemberAssign ==
    [][ last'.stmt.op = "MemberAssign"
        => LET object == last'.stmt.e
               member == last'.stmt.name
               new_value == EvalExpr(last'.stmt.args[1], environment,
                                     current_function_context, visible)
               holds_instance ==
                   /\ object.k = "Var"
                   /\ Get(environment, object.name).err = ""
                   /\ Get(environment, object.name).val.t = "StructInstance"
               writable ==
                   /\ ~IsConstant(environment, object.name)
                   /\ ~IsSmartLocked(environment, object.name)
           IN  IF holds_instance /\ writable /\ new_value.err = ""
               THEN /\ last'.res = ""
                    /\ environment' =
                          [environment EXCEPT
                              ![ScopeOf(environment, object.name)][object.name] =
                                  Binding(WithFields(Get(environment, object.name).val,
                                                     [f \in {member} |-> new_value.val]),
                                          FALSE, FALSE)]
               ELSE /\ last'.res # ""
                    /\ environment' = environment
                    /\ (object.k # "Var") => last'.res = "NotSimpleVariable"
                    /\ (holds_instance /\ new_value.err = "")
                       => last'.res \in {"CannotReassignConstant",
                                         "CannotReassignSmartLocked"} ]_vars

(* C24 witness: p.g = 7 on a smart-locked p has been refused and p has no  *)
(* field g.                                                                *)
C24_Witness ==
    /\ last.stmt = MemberAssignS(VarE("p"), "g", LitE(7))
    /\ last.res = "CannotReassignSmartLocked"
    /\ Get(environment, "p").val.t = "StructInstance"
    /\ "g" \notin DOMAIN Get(environment, "p").val.v.fields

----------------------------------------------------------------------------
(* Expr::Access on an array (interpreter/evaluate_mod.rs): the host        *)
(* evaluates `a = [e1, .., en]` and `a[idx]` directly.  The integer types  *)
(* keep the relation of the source (usize is narrower than i128, every     *)
(* length fits both) at widths the checker can enumerate: usize has        *)
(* UsizeBits bits instead of 64 and i128 has I128Bits bits instead of 128. *)

UsizeBits == 4

I128Bits == 8

RECURSIVE Pow2(_)
Pow2(n) == IF n = 0 THEN 1 ELSE 2 * Pow2(n - 1)

I128Min == -Pow2(I128Bits - 1)

I128Max == Pow2(I128Bits - 1) - 1

I128 == I128Min..I128Max

(* the longest array the host builds *)
MaxLen == 3

(* `v as usize` of an i128 v: the low UsizeBits bits *)
AsUsize(v) == v % Pow2(UsizeBits)

(* wrapping of an i128 result *)
WrapI128(v) == ((v - I128Min) % Pow2(I128Bits)) + I128Min

(* idx.abs(): i128::MIN has no absolute value; a build with overflow      *)
(* checks panics, a build without them returns i128::MIN                   *)
Abs(idx, overflow_checks) ==
    IF idx = I128Min
    THEN IF overflow_checks
         THEN [panic |-> TRUE, v |-> 0]
         ELSE [panic |-> FALSE, v |-> WrapI128(-idx)]
    ELSE [panic |-> FALSE, v |-> IF idx < 0 THEN -idx ELSE idx]

(* resolve_index of library/array_utils.rs: the bound check is made on the *)
(* i128                                                                    *)
resolve_index_lib(idx, len) ==
    LET len_i == len
        real  == IF idx < 0 THEN len_i + idx ELSE idx
    IN  IF real < 0 \/ real >= len_i
        THEN [err |-> "OutOfBounds", at |-> 0]
        ELSE [err |-> "", at |-> AsUsize(real)]

(* the closure resolve_index of Expr::Access: Ok(position) or an error     *)
resolve_index(idx, len, overflow_checks) ==
    IF len = 0
    THEN [err |-> "OutOfBounds", at |-> 0]
    ELSE IF idx < 0
    THEN LET l == len
             a == Abs(idx, overflow_checks)
         IN  IF a.panic
             THEN [err |-> "panic", at |-> 0]
             ELSE IF a.v > l
             THEN [err |-> "OutOfBounds", at |-> 0]
             ELSE [err |-> "", at |-> AsUsize(l + idx)]
    ELSE LET u == AsUsize(idx)
         IN  IF u >= len
             THEN [err |-> "OutOfBounds", at |-> 0]
             ELSE [err |-> "", at |-> u]

(* the elements the host's array literals evaluate to: all different *)
Elements(n) == [i \in 1..n |-> IntV(10 + i)]

ArrayS(name, n) ==
    [op |-> "Array", name |-> name, e |-> LitE(n), args |-> <<>>]

AccessS(ds, idx) ==
    [op |-> "Access", name |-> ds, e |-> LitE(idx), args |-> <<>>]

(* the Array arm of Expr::Access for one accessor: position, then          *)
(* arr.get(actual), whose None is the out-of-bounds error as well          *)
AccessArray(arr, idx, overflow_checks) ==
    LET actual == resolve_index(idx, Len(arr), overflow_checks)
    IN  IF actual.err # ""
        THEN [err |-> actual.err, val |-> NilV]
        ELSE IF actual.at + 1 \in DOMAIN arr
        THEN [err |-> "", val |-> arr[actual.at + 1]]
        ELSE [err |-> "OutOfBounds", val |-> NilV]

(* Expr::Access { ds, member: [idx] } *)
EvalAccess(scopes, ds, idx, overflow_checks) ==
    LET current == Get(scopes, ds)
    IN  IF current.err # ""
        THEN [err |-> current.err, val |-> NilV]
        ELSE IF current.val.t = "Array"
        THEN AccessArray(current.val.v, idx, overflow_checks)
        ELSE [err |-> "CannotAccessMember", val |-> NilV]

(* the host binds a to an array of n elements (Expr::Array, define) *)
HostArray ==
    \E n \in 0..MaxLen :
        /\ stack = <<>>
        /\ environment' = Define(environment, "a", ArrayV(Elements(n))).env
        /\ last' = Log(ArrayS("a", n), "", NilV, <<>>, <<>>, "")
        /\ UNCHANGED <<visible, initialized_visible, visible_definitions,
                       current_function_context, stack, argsFirst, initEvals,
                       initAborted>>

(* the host binds n to an Int, which has no members *)
HostInt ==
    /\ stack = <<>>
    /\ environment' = Define(environment, "n", IntV(1)).env
    /\ last' = Log(AllocS("n", LitE(1)), "", NilV, <<>>, <<>>, "")
    /\ UNCHANGED <<visible, initialized_visible, visible_definitions,
                   current_function_context, stack, argsFirst, initEvals,
                   initAborted>>

(* the host evaluates ds[idx], in a build with or without overflow checks *)
HostAccess ==
    \E ds \in {"a", "n"}, idx \in I128, overflow_checks \in BOOLEAN :
        LET r == EvalAccess(environment, ds, idx, overflow_checks)
        IN  /\ stack = <<>>
            /\ last' = Log(AccessS(ds, idx), r.err, r.val, <<>>, <<>>, "")
            /\ UNCHANGED <<environment, visible, initialized_visible,
                           visible_definitions, current_function_context,
                           stack, argsFirst, initEvals, initAborted>>

NextAccess ==
    \/ HostArray
    \/ HostInt
    \/ HostAccess

SpecAccess == InitEvaluateMod /\ [][NextAccess]_vars

(* the array bound to a, <<>> when a is not bound to an array *)
ArrayOfA ==
    LET a == Get(environment, "a")
    IN  IF a.err = "" /\ a.val.t = "Array" THEN a.val.v ELSE <<>>

(* C25: for an array of length n and every accessor idx of the integer    *)
(* type, a[idx] succeeds if and only if -n <= idx < n, with element idx    *)
(* when idx >= 0 and element n + idx when idx < 0 (elements counted from   *)
(* 0); every other idx fails with the out-of-bounds error, for n = 0 and   *)
(* for idx beyond the range of usize as well.                              *)
C25_IndexResolution ==
    (last.stmt.op = "Access" /\ last.stmt.name = "a"
        /\ Exists(environment, "a")) =>
        LET arr == ArrayOfA
            n   == Len(arr)
            idx == last.stmt.e.n
        IN  IF -n <= idx /\ idx < n
            THEN /\ last.res = ""
                 /\ last.val = arr[(IF idx >= 0 THEN idx ELSE n + idx) + 1]
            ELSE last.res = "OutOfBounds"

----------------------------------------------------------------------------
(* Built-in names (library/call_buildin.rs) under the eval of              *)
(* evaluate_mod.rs: a program declares user functions under built-in       *)
(* names and calls them with several argument lists.                       *)

BuiltinNames == {"print", "typeof", "cast_type", "array_new", "array_len"}

BuiltinBatches == <<
    <<LabelOf(<<12, 13, 14, 15, 16>>)>>,
    <<AllocS("z", LitE(1))>>,
    <<ArrayS("a", 2)>>,
    <<CallS("print", << <<"src", VarE("z")>> >>)>>,
    <<CallS("print", <<>>)>>,
    <<CallS("typeof", << <<"src", LitE(1)>> >>)>>,
    <<CallS("typeof", << <<"src", VarE("a")>> >>)>>,
    <<CallS("typeof", << <<"v", LitE(1)>> >>)>>,
    <<CallS("typeof", <<>>)>>,
    <<CallS("typeof", << <<"src", LitE(1)>>, <<"v", LitE(2)>> >>)>>,
    <<CallS("cast_type", << <<"value", LitE(1)>>, <<"type", LitE(1)>> >>)>>,
    <<CallS("cast_type", << <<"value", LitE(1)>> >>)>>,
    <<CallS("cast_type", << <<"type", LitE(1)>> >>)>>,
    <<CallS("array_new", <<>>)>>,
    <<CallS("array_len", << <<"src", VarE("a")>> >>)>>,
    <<CallS("array_len", << <<"src", LitE(1)>> >>)>>,
    <<CallS("array_len", <<>>)>>,
    <<CallS("user", << <<"src", LitE(1)>> >>)>> >>

InterpretBuiltin == Interpret(BuiltinBatches)

(* Stmt::AllocateVariable of an Expr::Array literal *)
BatchArray ==
    \E s \in Candidates :
        /\ stack # <<>>
        /\ s.op = "Array"
        /\ StoreDone(s, Define(environment, s.name, ArrayV(Elements(s.e.n))))

BatchBuiltinCall == stack # <<>> /\ BuiltinCall

NextBuiltin ==
    \/ InterpretBuiltin
    \/ InterpretReturn
    \/ BatchLabel
    \/ BatchAllocateVariable
    \/ BatchArray
    \/ BatchVariable
    \/ BatchBuiltinCall
    \/ BatchFunctionCall
    \/ FunctionReturn

SpecBuiltin == InitEvaluateMod /\ [][NextBuiltin]_vars

(* C26: a user function cannot shadow a built-in name: no body of a user   *)
(* function declared under a built-in name ever runs, and a call of a      *)
(* built-in name bound to a user function, once its arguments are          *)
(* evaluated, is answered by the built-in handler whatever argument names  *)
(* it supplies.                                                            *)
C26_NoShadowing ==
    /\ \A i \in 1..Len(stack) :
           stack[i].fn # 0 => LabelItems[stack[i].fn].name \notin BuiltinNames
    /\ (last.stmt.op = "Call" /\ last.stmt.name \in BuiltinNames
           /\ Get(environment, last.stmt.name).val.t = "Function"
           /\ last.phase # "args")
           => last.phase = "builtin"

----------------------------------------------------------------------------
(* Equality of values (values/values.rs): the host binds l and r to        *)
(* values of every variant and evaluates l == r and l != r.                *)

FloatV(f) == [t |-> "Float", v |-> f]

BigIntV(digits) == [t |-> "BigInt", v |-> digits]

BoolV(b) == [t |-> "Bool", v |-> b]

CharV(c) == [t |-> "Char", v |-> c]

(* the f64 payloads of the program: two finite numbers, both zeros and a   *)
(* NaN, each named by how it prints                                        *)
F64 == {"1.5", "2.5", "0.0", "-0.0", "NaN"}

(* == of f64: IEEE 754 comparison *)
F64Eq(a, b) ==
    /\ a # "NaN"
    /\ b # "NaN"
    /\ \/ a = b
       \/ {a, b} = {"0.0", "-0.0"}

(* the values l and r are bound to *)
EqValues ==
    {IntV(1), IntV(2), NilV, BoolV(TRUE), BoolV(FALSE), StringV("1"),
     StringV("e"), BigIntV("1"), CharV("1"), CharV("e")}
    \cup {FloatV(f) : f \in F64}
    \cup {FunctionV(17), FunctionV(18), FunctionV(21)}
    \cup {ControlFlowV(19), ControlFlowV(20), ControlFlowV(22)}

(* PartialEq derived for Function and ControlFlow as well: every field is *)
(* compared                                                                *)
ValueEqDerived(a, b) ==
    /\ a.t = b.t
    /\ IF a.t \in {"Function", "ControlFlow"}
       THEN LabelItems[a.v] = LabelItems[b.v]
       ELSE IF a.t = "Float"
       THEN F64Eq(a.v, b.v)
       ELSE a.v = b.v

(* a == b of Value: #[derive(PartialEq)] compares the variants and then   *)
(* the payloads with the payload type's ==; Function and ControlFlow       *)
(* implement it on the name alone                                          *)
ValueEq(a, b) ==
    /\ a.t = b.t
    /\ IF a.t \in {"Function", "ControlFlow"}
       THEN LabelItems[a.v].name = LabelItems[b.v].name
       ELSE IF a.t = "Float"
       THEN F64Eq(a.v, b.v)
       ELSE a.v = b.v

BinaryS(left, operator, right) ==
    [op |-> operator, name |-> left, e |-> VarE(right), args |-> <<>>]

(* the host binds l or r *)
HostDefine ==
    \E n \in {"l", "r"}, v \in EqValues :
        /\ stack = <<>>
        /\ environment' = Define(environment, n, v).env
        /\ last' = Log(EnvCall("define", n, NoE), "", v, <<>>, <<>>, "")
        /\ UNCHANGED <<visible, initialized_visible, visible_definitions,
                       current_function_context, stack, argsFirst, initEvals,
                       initAborted>>

(* Expr::Binary: both operands are evaluated, then the operator applied *)
EvalBinary(left, operator, right) ==
    LET left_val  == Get(environment, left)
        right_val == Get(environment, right)
    IN  IF left_val.err # ""
        THEN [err |-> left_val.err, val |-> NilV]
        ELSE IF right_val.err # ""
        THEN [err |-> right_val.err, val |-> NilV]
        ELSE IF operator = "EqualEqual"
        THEN [err |-> "", val |-> BoolV(ValueEq(left_val.val, right_val.val))]
        ELSE [err |-> "", val |-> BoolV(~ValueEq(left_val.val, right_val.val))]

HostBinary(operator) ==
    \E left \in {"l", "r"}, right \in {"l", "r"} :
        LET r == EvalBinary(left, operator, right)
        IN  /\ stack = <<>>
            /\ last' = Log(BinaryS(left, operator, right), r.err, r.val,
                           <<>>, <<>>, "")
            /\ UNCHANGED <<environment, visible, initialized_visible,
                           visible_definitions, current_function_context,
                           stack, argsFirst, initEvals, initAborted>>

HostEqualEqual == HostBinary("EqualEqual")

HostBangEqual == HostBinary("BangEqual")

NextEquality ==
    \/ HostDefine
    \/ HostEqualEqual
    \/ HostBangEqual

SpecEquality == Init /\ [][NextEquality]_vars

(* the comparison the last step evaluated, and its operands *)
Compared ==
    /\ last.stmt.op \in {"EqualEqual", "BangEqual"}
    /\ last.res = ""

LeftVal == Get(environment, last.stmt.name).val

RightVal == Get(environment, last.stmt.e.name).val

(* what == yielded: the result of EqualEqual, the negation of BangEqual's *)
Equal == IF last.stmt.op = "EqualEqual" THEN last.val.v ELSE ~last.val.v

NameOf(value) == LabelItems[value.v].name

(* C27: two Function values are equal iff their names are equal,          *)
(* whatever their parameters, bodies and permitted blocks, and likewise    *)
(* two ControlFlow values; a Function and a ControlFlow of the same name   *)
(* are not equal; values of every other variant are equal iff they are of  *)
(* the same variant and their payloads are equal, two Float payloads as    *)
(* numbers (IEEE 754: a NaN equals nothing, 0.0 equals -0.0).  != is the   *)
(* negation.                                                               *)
C27_NameOnlyEquality ==
    Compared =>
        Equal = (/\ LeftVal.t = RightVal.t
                 /\ IF LeftVal.t \in {"Function", "ControlFlow"}
                    THEN NameOf(LeftVal) = NameOf(RightVal)
                    ELSE IF LeftVal.t = "Float"
                    THEN /\ "NaN" \notin {LeftVal.v, RightVal.v}
                         /\ \/ LeftVal.v = RightVal.v
                            \/ {LeftVal.v, RightVal.v} \subseteq {"0.0", "-0.0"}
                    ELSE LeftVal.v = RightVal.v)

(* two functions of one name that differ in parameters, body and blocks    *)
(* have been compared and found equal                                      *)
C27_Witness ==
    /\ Compared
    /\ last.stmt.op = "EqualEqual"
    /\ LeftVal = FunctionV(17)
    /\ RightVal = FunctionV(18)
    /\ last.val = BoolV(TRUE)

----------------------------------------------------------------------------
(* Stmt::For (interpreter/interpreter.rs, 173-211).  The loop is unfolded  *)
(* like a call: ExecFor runs the handler to the start of the first         *)
(* iteration's body, ForNext from the end of one body to the start of the  *)
(* next, ForReturn from the end of the last body to Ok(()).                *)

ForS(iterator, iterable, body) ==
    [op |-> "For", name |-> iterator, e |-> iterable, args |-> body]

(* history markers: an iteration of the loop over iterator has completed   *)
(* and the next has started; the loop has completed                        *)
ForNextS(iterator) == [op |-> "ForNext", name |-> iterator, e |-> NoE, args |-> <<>>]

ForEndS(iterator) == [op |-> "ForEnd", name |-> iterator, e |-> NoE, args |-> <<>>]

(* push_scope(); define(iterator, item)? *)
StartIteration(scopes, iterator, item) ==
    Define(PushScope(scopes), iterator, item)

(* Stmt::For up to the body of the first iteration *)
ExecFor ==
    \E s \in Candidates :
        /\ stack # <<>>
        /\ s.op = "For"
        /\ Len(environment) + 2 <= MaxDepth
        /\ LET iter_val == EvalExpr(s.e, environment, current_function_context,
                                    visible)
               items == iter_val.val.v
               first == StartIteration(PushScope(environment), s.name, items[1])
               frame == [fn |-> 0, kind |-> "for", name |-> Who,
                         body |-> s.args, pc |-> 1,
                         env0 |-> environment, ctx0 |-> current_function_context,
                         wrote |-> EmptyMap, touched |-> {},
                         of |-> s, items |-> items, at |-> 1,
                         ran |-> <<Get(first.env, s.name).val>>]
           IN  IF iter_val.err # ""
               THEN /\ environment' = environment
                    /\ stack' = <<>>
                    /\ last' = Log(s, iter_val.err, NilV, <<>>, <<>>, "iterable")
               ELSE IF iter_val.val.t # "Array"
               THEN /\ environment' = environment
                    /\ stack' = <<>>
                    /\ last' = Log(s, "ForExpectsArray", NilV, <<>>, <<>>,
                                   "iterable")
               ELSE IF items = <<>>
               THEN /\ environment' = PopScope(PushScope(environment))
                    /\ stack' = Advance(stack)
                    /\ last' = Log(s, "", NilV, <<>>, <<>>, "empty")
               ELSE /\ environment' = first.env
                    /\ stack' = IF first.err # "" THEN <<>>
                                ELSE Append(stack, frame)
                    /\ last' = Log(s, first.err, items[1], <<>>, <<>>, "body")
        /\ UNCHANGED <<visible, initialized_visible, visible_definitions,
                       current_function_context, argsFirst, initEvals,
                       initAborted>>

(* the body of an iteration has completed and elements remain: pop the     *)
(* iteration's scope and start the next iteration                          *)
ForNext ==
    /\ Len(stack) > 1
    /\ Top.fn = 0
    /\ Top.kind = "for"
    /\ Top.pc > Len(BodyOf(Top))
    /\ Top.at < Len(Top.items)
    /\ LET item == Top.items[Top.at + 1]
           next == StartIteration(PopScope(environment), Top.of.name, item)
       IN  /\ environment' = next.env
           /\ stack' = IF next.err # "" THEN <<>>
                       ELSE [stack EXCEPT
                                ![Len(stack)].pc = 1,
                                ![Len(stack)].at = @ + 1,
                                ![Len(stack)].ran =
                                    Append(@, Get(next.env, Top.of.name).val)]
           /\ last' = Log(ForNextS(Top.of.name), next.err, item, <<>>, <<>>, "body")
    /\ UNCHANGED <<visible, initialized_visible, visible_definitions,
                   current_function_context, argsFirst, initEvals, initAborted>>

(* the body of the last iteration has completed: pop the iteration's scope *)
(* and the loop's scope, Ok(())                                            *)
ForReturn ==
    /\ Len(stack) > 1
    /\ Top.fn = 0
    /\ Top.kind = "for"
    /\ Top.pc > Len(BodyOf(Top))
    /\ Top.at = Len(Top.items)
    /\ LET rest == SubSeq(stack, 1, Len(stack) - 1)
       IN  stack' = [Advance(rest) EXCEPT
                        ![Len(rest)].touched = @ \cup Top.touched]
    /\ environment' = PopScope(PopScope(environment))
    /\ last' = Log(ForEndS(Top.of.name), "", NilV, Top.ran, <<>>, "")
    /\ UNCHANGED <<visible, initialized_visible, visible_definitions,
                   current_function_context, argsFirst, initEvals, initAborted>>

(* The loop program: a is an array of zero or two elements, n an Int; the  *)
(* body reads the iterator, defines w and assigns the global t; one loop   *)
(* iterates with a name the program also binds globally and makes          *)
(* constant; one body fails.                                               *)
LoopBody == <<ReadS("i"), AllocS("w", VarE("i")), AllocS("t", VarE("i"))>>

ForBatches == <<
    <<ArrayS("a", 0)>>,
    <<ArrayS("a", 2)>>,
    <<AllocS("n", LitE(1))>>,
    <<AllocS("t", LitE(0))>>,
    <<AllocS("i", LitE(9))>>,
    <<SmartConstS("i")>>,
    <<ForS("i", VarE("a"), LoopBody)>>,
    <<ForS("i", VarE("n"), LoopBody)>>,
    <<ForS("i", VarE("u"), LoopBody)>>,
    <<ForS("k", VarE("a"), <<ReadS("k"), ReadS("u")>>)>>,
    <<ReadS("w")>>,
    <<ReadS("i")>> >>

InterpretFor == Interpret(ForBatches)

NextFor ==
    \/ InterpretFor
    \/ InterpretReturn
    \/ BatchArray
    \/ BatchAllocateVariable
    \/ BatchSmartConst
    \/ BatchVariable
    \/ ExecFor
    \/ ForNext
    \/ ForReturn

SpecFor == Init /\ [][NextFor]_vars

(* the names of the loop program *)
LoopNames == {"a", "n", "t", "i", "k", "w", "u"}

(* the names bound when the loop of the running frame started *)
BoundBefore(frame) == {n \in LoopNames : Exists(frame.env0, n)}

(* C30: a For whose iterable evaluates to a value that is not an Array     *)
(* fails and leaves the scopes as they were; one whose iterable evaluates  *)
(* to an Array runs its body once per element, in element order, each      *)
(* iteration in a scope of its own inside one scope of the loop, with the  *)
(* iterator resolving to the element; a name first defined in an iteration *)
(* is unbound when the next iteration starts and after the loop, and after *)
(* the loop the scope depth is the depth before it.                        *)
C30_ForLoop ==
    [][ LET iter_val == EvalExpr(last'.stmt.e, environment,
                                 current_function_context, visible)
        IN
        /\ (last'.stmt.op = "For" /\ iter_val.err = ""
               /\ iter_val.val.t # "Array")
              => /\ last'.res = "ForExpectsArray"
                 /\ environment' = environment
        /\ (last'.stmt.op = "For" /\ iter_val.err = ""
               /\ iter_val.val.t = "Array" /\ iter_val.val.v = <<>>)
              => /\ last'.res = ""
                 /\ environment' = environment
                 /\ stack' = Advance(stack)
        /\ (last'.stmt.op = "For" /\ iter_val.err = ""
               /\ iter_val.val.t = "Array" /\ iter_val.val.v # <<>>)
              => /\ last'.res = ""
                 /\ Len(stack') = Len(stack) + 1
                 /\ stack'[Len(stack')].body = last'.stmt.args
                 /\ stack'[Len(stack')].pc = 1
                 /\ Len(environment') = Len(environment) + 2
                 /\ Get(environment', last'.stmt.name).val = iter_val.val.v[1]
        /\ last'.stmt.op = "ForNext"
              => /\ last'.res = ""
                 /\ stack'[Len(stack')].pc = 1
                 /\ Len(environment') = Len(Top.env0) + 2
                 /\ Get(environment', Top.of.name).val = Top.items[Top.at + 1]
                 /\ \A n \in LoopNames \ (BoundBefore(Top) \cup {Top.of.name}) :
                        ~Exists(environment', n)
        /\ last'.stmt.op = "ForEnd"
              => /\ last'.argv = Top.items
                 /\ Len(environment') = Len(Top.env0)
                 /\ \A n \in LoopNames \ BoundBefore(Top) :
                        ~Exists(environment', n)
      ]_vars

----------------------------------------------------------------------------
(* Stmt::While and Stmt::DoWhile (interpreter/interpreter.rs, 213-244),    *)
(* unfolded like Stmt::For: one action to the start of the first body, one *)
(* from the end of a body to the start of the next or to Ok(()).           *)

WhileS(condition, body) ==
    [op |-> "While", name |-> "", e |-> condition, args |-> body]

DoWhileS(body, condition) ==
    [op |-> "DoWhile", name |-> "", e |-> condition, args |-> body]

(* history marker: the condition of the running loop has been evaluated    *)
(* after a body                                                            *)
LoopNextS(kind) == [op |-> kind, name |-> "", e |-> NoE, args |-> <<>>]

(* the frame of a loop body; iters counts the bodies started *)
LoopFrame(kind, s) ==
    [fn |-> 0, kind |-> kind, name |-> Who, body |-> s.args, pc |-> 1,
     env0 |-> environment, ctx0 |-> current_function_context,
     wrote |-> EmptyMap, touched |-> {}, of |-> s, iters |-> 1]

(* Stmt::While up to the start of the first body, or to Ok(()) when the    *)
(* condition is falsy at once                                              *)
ExecWhile ==
    \E s \in Candidates :
        /\ stack # <<>>
        /\ s.op = "While"
        /\ Len(environment) < MaxDepth
        /\ LET c == EvalExpr(s.e, environment, current_function_context, visible)
           IN  IF c.err # ""
               THEN /\ environment' = environment
                    /\ stack' = <<>>
                    /\ last' = Log(s, c.err, NilV, <<>>, <<>>, "condition")
               ELSE IF Truthy(c.val)
               THEN /\ environment' = PushScope(environment)
                    /\ stack' = Append(stack, LoopFrame("while", s))
                    /\ last' = Log(s, "", c.val, <<>>, <<>>, "body")
               ELSE /\ environment' = environment
                    /\ stack' = Advance(stack)
                    /\ last' = Log(s, "", c.val, <<>>, <<>>, "exit")
        /\ UNCHANGED <<visible, initialized_visible, visible_definitions,
                       current_function_context, argsFirst, initEvals,
                       initAborted>>

(* a DoWhile that asks the condition before its first body *)
ExecDoWhileConditionFirst ==
    \E s \in Candidates :
        /\ stack # <<>>
        /\ s.op = "DoWhile"
        /\ Len(environment) < MaxDepth
        /\ LET c == EvalExpr(s.e, environment, current_function_context, visible)
           IN  IF c.err = "" /\ Truthy(c.val)
               THEN /\ environment' = PushScope(environment)
                    /\ stack' = Append(stack, LoopFrame("dowhile", s))
                    /\ last' = Log(s, "", NilV, <<>>, <<>>, "body")
               ELSE /\ environment' = environment
                    /\ stack' = After(c.err)
                    /\ last' = Log(s, c.err, NilV, <<>>, <<>>, "exit")
        /\ UNCHANGED <<visible, initialized_visible, visible_definitions,
                       current_function_context, argsFirst, initEvals,
                       initAborted>>

(* Stmt::DoWhile up to the start of the first body *)
ExecDoWhile ==
    \E s \in Candidates :
        /\ stack # <<>>
        /\ s.op = "DoWhile"
        /\ Len(environment) < MaxDepth
        /\ environment' = PushScope(environment)
        /\ stack' = Append(stack, LoopFrame("dowhile", s))
        /\ last' = Log(s, "", NilV, <<>>, <<>>, "body")
        /\ UNCHANGED <<visible, initialized_visible, visible_definitions,
                       current_function_context, argsFirst, initEvals,
                       initAborted>>

(* the body of the running loop of this kind has completed: pop_scope,     *)
(* then the condition; truthy starts the next body in a new scope, falsy   *)
(* ends the loop                                                           *)
LoopNext(kind) ==
    /\ Len(stack) > 1
    /\ Top.fn = 0
    /\ Top.kind = kind
    /\ Top.pc > Len(BodyOf(Top))
    /\ LET popped == PopScope(environment)
           c == EvalExpr(Top.of.e, popped, current_function_context, visible)
           rest == SubSeq(stack, 1, Len(stack) - 1)
       IN  IF c.err # ""
           THEN /\ environment' = popped
                /\ stack' = <<>>
                /\ last' = Log(LoopNextS(kind), c.err, NilV, <<>>, <<>>, "condition")
           ELSE IF Truthy(c.val)
           THEN /\ environment' = PushScope(popped)
                /\ stack' = [stack EXCEPT ![Len(stack)].pc = 1,
                                          ![Len(stack)].iters = @ + 1]
                /\ last' = Log(LoopNextS(kind), "", c.val, <<>>, <<>>, "body")
           ELSE /\ environment' = popped
                /\ stack' = [Advance(rest) EXCEPT
                                ![Len(rest)].touched = @ \cup Top.touched]
                /\ last' = Log(LoopNextS(kind), "", c.val, <<Top.iters>>, <<>>,
                               "exit")
    /\ UNCHANGED <<visible, initialized_visible, visible_definitions,
                   current_function_context, argsFirst, initEvals, initAborted>>

WhileNext == LoopNext("while")

DoWhileNext == LoopNext("dowhile")

(* The loop program: the body moves d into c and clears d, so that a loop  *)
(* on c runs twice from c = d = 1, once from c = 1, d = 0; it defines w.   *)
CountDown == <<AllocS("c", VarE("d")), AllocS("d", LitE(0)), AllocS("w", LitE(1))>>

WhileBatches == <<
    <<AllocS("c", LitE(0))>>, <<AllocS("c", LitE(1))>>,
    <<AllocS("d", LitE(0))>>, <<AllocS("d", LitE(1))>>,
    <<WhileS(VarE("c"), CountDown)>>,
    <<DoWhileS(CountDown, VarE("c"))>>,
    <<DoWhileS(<<AllocS("w", LitE(1))>>, VarE("w"))>>,
    <<WhileS(VarE("c"), <<ReadS("u")>>)>>,
    <<ReadS("w")>> >>

InterpretWhile == Interpret(WhileBatches)

NextWhile ==
    \/ InterpretWhile
    \/ InterpretReturn
    \/ BatchAllocateVariable
    \/ BatchVariable
    \/ ExecWhile
    \/ WhileNext
    \/ ExecDoWhile
    \/ DoWhileNext

SpecWhile == Init /\ [][NextWhile]_vars

(* C31: While evaluates its condition first and runs no body when it is    *)
(* falsy; DoWhile starts its first body without asking the condition; in   *)
(* both the condition is evaluated after every body, outside the scope of  *)
(* the body, a truthy one starts the next body in a new empty scope and    *)
(* the first falsy one ends the loop with the scope depth it started at.   *)
C31_WhileDoWhile ==
    [][ LET c == EvalExpr(last'.stmt.e, environment, current_function_context,
                          visible)
            after == EvalExpr(Top.of.e, PopScope(environment),
                              current_function_context, visible)
            started == /\ Len(stack') = Len(stack) + 1
                       /\ stack'[Len(stack')].body = last'.stmt.args
                       /\ stack'[Len(stack')].pc = 1
                       /\ environment' = PushScope(environment)
        IN
        /\ (last'.stmt.op = "While" /\ c.err = "")
              => IF Truthy(c.val)
                 THEN started
                 ELSE /\ last'.res = ""
                      /\ stack' = Advance(stack)
                      /\ environment' = environment
        /\ last'.stmt.op = "DoWhile" => last'.res = "" /\ started
        /\ (last'.stmt.op \in {"while", "dowhile"} /\ after.err = "")
              => /\ Top.pc > Len(Top.body)
                 /\ Len(environment) = Len(Top.env0) + 1
                 /\ IF Truthy(after.val)
                    THEN /\ Len(stack') = Len(stack)
                         /\ stack'[Len(stack')].pc = 1
                         /\ environment' = PushScope(PopScope(environment))
                    ELSE /\ last'.res = ""
                         /\ Len(stack') = Len(stack) - 1
                         /\ stack'[Len(stack')].pc = stack[Len(stack')].pc + 1
                         /\ Len(environment') = Len(Top.env0)
                         /\ last'.argv[1] >= 1
      ]_vars

(* a While has ended after two bodies *)
C31_Witness ==
    /\ last.stmt.op = "while"
    /\ last.phase = "exit"
    /\ last.argv = <<2>>

----------------------------------------------------------------------------
(* Every scope-pushing construct in one program, nested two deep: an If    *)
(* around a While, a For, a DoWhile around a call, a Jump around a call,   *)
(* a struct instantiation and a method call, and a call that fails.        *)

BalanceBatches == <<
    <<LabelOf(<<7, 10, 23>>)>>,
    <<AllocS("c", LitE(1))>>,
    <<ArrayS("a", 2)>>,
    <<IfS(VarE("c"), <<WhileS(VarE("c"), <<AllocS("c", LitE(0))>>)>>, <<>>, None)>>,
    <<ForS("i", VarE("a"), <<ReadS("i")>>)>>,
    <<DoWhileS(<<CallS("f", <<>>)>>, LitE(0))>>,
    <<JumpS("blk")>>,
    <<CallS("deep", <<>>)>>,
    <<StructDefS(1)>>,
    <<NewS("p", "P", "new", <<LitE(3), LitE(4)>>)>>,
    <<MethodCallS(VarE("p"), "set", <<LitE(5)>>)>> >>

InterpretBalance == Interpret(BalanceBatches)

NextBalance ==
    \/ InterpretBalance
    \/ InterpretReturn
    \/ BatchLabel
    \/ BatchAllocateVariable
    \/ BatchArray
    \/ BatchVariable
    \/ ExecIf
    \/ IfReturn
    \/ ExecWhile
    \/ WhileNext
    \/ ExecDoWhile
    \/ DoWhileNext
    \/ ExecFor
    \/ ForNext
    \/ ForReturn
    \/ ExecJump
    \/ JumpReturn
    \/ BatchFunctionCall
    \/ FunctionReturn
    \/ ExecStructDef
    \/ ExecNew
    \/ NewReturn
    \/ ExecMethodCall
    \/ MethodReturn
    \/ ExecMemberAssign

SpecBalance == Init /\ [][NextBalance]_vars

(* a body has completed and its statement returns Ok: the frame of the     *)
(* body is gone and the enclosing body goes on                             *)
Completes ==
    /\ Len(stack) > 1
    /\ Len(stack') = Len(stack) - 1
    /\ last'.res = ""

(* C32: scope balance: every statement that completes leaves the scope     *)
(* depth and the permitted-blocks field as they were before it, and after  *)
(* every batch for which interpret returns Ok the scope stack is the       *)
(* global scope alone and the field is None.                               *)
C32_ScopeBalance ==
    [][ /\ Completes
           => /\ Len(environment') = Len(Top.env0)
              /\ current_function_context' = Top.ctx0
        /\ (stack # <<>> /\ stack' = Advance(stack))
           => /\ Len(environment') = Len(environment)
              /\ current_function_context' = current_function_context
        /\ last'.stmt = OkS
           => /\ Len(environment') = 1
              /\ current_function_context' = None
      ]_vars

----------------------------------------------------------------------------
(* Calls of functions permitted on a block no Visible statement declared   *)

UndeclaredBatches == <<
    <<VisibleS("b1", BlockDecl["b1"])>>, <<VisibleS("b", BlockDecl["b"])>>,
    <<LabelOf(<<8, 24>>)>>,
    <<AllocS("z", LitE(7))>>,
    <<CallS("both", <<>>)>>, <<CallS("late", <<>>)>>,
    <<ReadS("x")>> >>

InterpretUndeclared == Interpret(UndeclaredBatches)

NextUndeclared ==
    \/ InterpretUndeclared
    \/ InterpretReturn
    \/ BatchVisible
    \/ BatchLabel
    \/ BatchVariable
    \/ BatchAllocateVariable
    \/ BatchFunctionCall

SpecUndeclared == Init /\ [][NextUndeclared]_vars

(* The permitted list of the function the name is bound to.                *)
PermittedOf(name) == LabelItems[Get(environment, name).val.v].visible_blocks

(* The position in the list of the first block that is not declared.       *)
FirstUndeclared(blocks) ==
    CHOOSE i \in 1..Len(blocks) :
        /\ blocks[i] \notin DOMAIN visible
        /\ \A j \in 1..(i - 1) : blocks[j] \in DOMAIN visible

(* This step is the call of a function whose permitted list names an       *)
(* undeclared block.                                                       *)
CallsUndeclared ==
    /\ stack # <<>>
    /\ last'.stmt.op = "Call"
    /\ Get(environment, last'.stmt.name).err = ""
    /\ Get(environment, last'.stmt.name).val.t = "Function"
    /\ \E i \in 1..Len(PermittedOf(last'.stmt.name)) :
           PermittedOf(last'.stmt.name)[i] \notin DOMAIN visible

(* C33 as stated: a call of a function whose permitted list names an       *)
(* undeclared block fails with the undefined-block error before any scope  *)
(* is pushed (no initializer has been evaluated in a temporary scope),     *)
(* before the permitted-blocks field is changed and before the body runs,  *)
(* and the scope depth and the field are those before the call.            *)
C33_UndeclaredBlock ==
    [][ CallsUndeclared
           => /\ last'.res = "UndefinedVisibleBlock"
              /\ last'.inits = <<>>
              /\ stack' = <<>>
              /\ Len(environment') = Len(environment)
              /\ current_function_context' = current_function_context
      ]_vars

(* C33 amended: the blocks of the list are checked and initialised one at  *)
(* a time in list order, so the call fails before the scope of the call is *)
(* pushed, before the field is changed and before the body runs; when it   *)
(* fails with the undefined-block error the scope stack and the field are  *)
(* those before the call and every block listed before the first           *)
(* undeclared one is initialised; otherwise it failed in an initializer of *)
(* a block listed before the undeclared one, one scope deeper.             *)
C33_UndeclaredBlockInOrder ==
    [][ CallsUndeclared
           => LET blocks == PermittedOf(last'.stmt.name)
                  first == FirstUndeclared(blocks)
                  before == {blocks[j] : j \in 1..(first - 1)}
              IN  /\ last'.res # ""
                  /\ last'.phase = "init"
                  /\ stack' = <<>>
                  /\ current_function_context' = current_function_context
                  /\ \A b \in DOMAIN visible \ before :
                         /\ visible'[b] = visible[b]
                         /\ initialized_visible'[b] = initialized_visible[b]
                  /\ last'.res = "UndefinedVisibleBlock"
                         => /\ environment' = environment
                            /\ \A b \in before : initialized_visible'[b]
                  /\ last'.res # "UndefinedVisibleBlock"
                         => /\ last'.inits # <<>>
                            /\ last'.inits[Len(last'.inits)][1] \in before
                            /\ Len(environment') = Len(environment) + 1
      ]_vars

(* both has failed on b2 after this call initialised b1                    *)
C33_Witness ==
    /\ last.stmt = CallS("both", <<>>)
    /\ last.res = "UndefinedVisibleBlock"
    /\ last.inits # <<>>
    /\ initialized_visible["b1"]
    /\ current_function_context = None

----------------------------------------------------------------------------
(* Nested calls of functions permitted on the same block                   *)

(* The frame of the caller of the running function.                        *)
Caller == stack[Len(stack) - 1]

(* C34: when a function g permitted on b that did not assign x returns     *)
(* into the body of a function f permitted on b that had assigned v to     *)
(* b's variable x before the call, x resolves to v in f's body after the   *)
(* return; and when such an f returns after its nested call, the           *)
(* materialization of b holds x = v.                                       *)
C34_NestedPermittedCalls ==
    [][ /\ ( /\ last'.stmt = ReturnS("get")
             /\ Len(stack) >= 2
             /\ Caller.fn # 0
             /\ LabelItems[Caller.fn].name = "outer"
             /\ "x" \in DOMAIN Caller.wrote
             /\ "x" \notin DOMAIN Top.wrote )
           => /\ Get(environment', "x").err = ""
              /\ Get(environment', "x").val = Caller.wrote["x"]
        /\ ( /\ last'.stmt = ReturnS("outer")
             /\ stack # <<>>
             /\ "x" \in DOMAIN Top.wrote
             /\ Top.pc > 2 )
           => visible'["b"]["x"] = Top.wrote["x"]
      ]_vars

----------------------------------------------------------------------------
(* C35: a binding with the iterator's name in an enclosing scope does not  *)
(* keep a For over a non-empty Array from starting and from going on to    *)
(* its next iteration, whatever its flags are, and when the loop (whose    *)
(* body does not assign the iterator) has ended the name resolves to the   *)
(* value it had before the loop.                                           *)
C35_IteratorIsLocal ==
    [][ LET iter_val == EvalExpr(last'.stmt.e, environment,
                                 current_function_context, visible)
        IN
        /\ ( /\ last'.stmt.op = "For"
             /\ iter_val.err = ""
             /\ iter_val.val.t = "Array"
             /\ iter_val.val.v # <<>>
             /\ Exists(environment, last'.stmt.name) )
              => /\ last'.res = ""
                 /\ Get(environment', last'.stmt.name).val = iter_val.val.v[1]
        /\ (last'.stmt.op = "ForNext" /\ Exists(Top.env0, Top.of.name))
              => last'.res = ""
        /\ (last'.stmt.op = "ForEnd" /\ Exists(Top.env0, Top.of.name))
              => Get(environment', Top.of.name).val
                     = Get(Top.env0, Top.of.name).val
      ]_vars

----------------------------------------------------------------------------
(* Struct activations inside struct activations                            *)

NestedBatches == <<
    <<StructDefS(1)>>, <<StructDefS(2)>>, <<StructDefS(3)>>,
    <<NewS("a", "R", "new", <<LitE(3)>>)>>,
    <<NewS("a", "R", "make", <<>>)>>,
    <<NewS("b", "P", "new", <<LitE(3), LitE(4)>>)>>,
    <<MethodCallS(VarE("a"), "m1", <<>>)>> >>

InterpretNested == Interpret(NestedBatches)

NextNested ==
    \/ InterpretNested
    \/ InterpretReturn
    \/ ExecStructDef
    \/ ExecNew
    \/ NewReturn
    \/ ExecMethodCall
    \/ MethodReturn
    \/ ExecMemberAssign

SpecNested == Init /\ [][NextNested]_vars

(* a constructor or method body is running *)
InActivation ==
    /\ stack # <<>>
    /\ Top.fn = 0
    /\ Top.kind \in {"new", "method"}

(* the fields the body assigns on self *)
FieldsSetBy(body) ==
    {body[i].name : i \in {j \in 1..Len(body) :
                              /\ body[j].op = "MemberAssign"
                              /\ body[j].e = VarE("self")}}

(* C36: a StructInstantiation or a MethodCall on another object that       *)
(* starts inside the body of a running constructor or method leaves the    *)
(* self the enclosing activation resolves unchanged; the instance a        *)
(* StructInstantiation of S returns has struct name S and only fields its  *)
(* constructor sets; and a method call on a variable writes back an        *)
(* instance of the struct of the instance it was called on.                *)
C36_SelfIsolation ==
    [][ /\ ( /\ InActivation
             /\ last'.res = ""
             /\ \/ last'.stmt.op = "New"
                \/ last'.stmt.op = "MethodCall" /\ last'.stmt.e # VarE("self") )
           => Get(SubSeq(environment', 1, Len(environment)), "self").val
                  = Get(environment, "self").val
        /\ (last'.stmt.op = "NewEnd" /\ last'.res = "")
           => /\ last'.val.t = "StructInstance"
              /\ StructDecls[last'.val.v.struct].name = Top.of.args[1]
              /\ DOMAIN last'.val.v.fields \subseteq FieldsSetBy(Top.body)
        /\ ( /\ last'.stmt.op = "MethodEnd"
             /\ last'.res = ""
             /\ Top.of.e.k = "Var" )
           => /\ Get(environment', Top.of.e.name).val.t = "StructInstance"
              /\ Get(environment', Top.of.e.name).val.v.struct
                     = Top.self0.v.struct
      ]_vars

----------------------------------------------------------------------------
(* SmartLock followed immediately by SmartUnlock                           *)

RoundTripBatches == <<
    <<AllocS("x", LitE(1))>>, <<AllocS("x", LitE(2))>>,
    <<AllocS("v", LitE(3))>>,
    <<LabelOf(<<25, 26>>)>>,
    <<SmartLockS("x"), SmartUnlockS("x")>>,
    <<JumpS("relock")>>, <<JumpS("newlock")>>,
    <<SmartConstS("x")>> >>

InterpretRoundTrip == Interpret(RoundTripBatches)

NextRoundTrip ==
    \/ InterpretRoundTrip
    \/ InterpretReturn
    \/ BatchAllocateVariable
    \/ BatchSmartConst
    \/ BatchLabel
    \/ ExecSmartLock
    \/ ExecSmartUnlock
    \/ ExecJump
    \/ JumpReturn

SpecRoundTrip == Init /\ [][NextRoundTrip]_vars

(* The running body is at a SmartUnlock that the SmartLock of the same     *)
(* variable precedes immediately.                                          *)
AtUnlockAfterLock ==
    /\ stack # <<>>
    /\ Top.pc >= 2
    /\ Top.pc <= Len(BodyOf(Top))
    /\ BodyOf(Top)[Top.pc].op = "SmartUnlock"
    /\ BodyOf(Top)[Top.pc - 1] = SmartLockS(BodyOf(Top)[Top.pc].name)

(* The scope stack before that SmartLock: the stack the body started on,   *)
(* after the assignment that precedes the SmartLock if there is one.       *)
BeforeLock ==
    LET entry == IF Top.fn = 0 THEN Top.env0 ELSE PushScope(Top.env0)
        first == BodyOf(Top)[1]
    IN  IF Top.pc = 2
        THEN entry
        ELSE Define(entry, first.name,
                    EvalExpr(first.e, entry, Top.ctx0, visible).val).env

(* some scope holds the name plain *)
BoundPlain(scopes, name) ==
    \E i \in 1..Len(scopes) :
        /\ name \in DOMAIN scopes[i]
        /\ ~scopes[i][name].is_constant
        /\ ~scopes[i][name].smart_lock

(* C37 as stated: SmartLock(x) followed immediately by SmartUnlock(x), on  *)
(* an x that some scope binds plain, leaves the scope stack identical to   *)
(* the stack before the two statements, at any scope depth.                *)
C37_RoundTrip ==
    [][ ( /\ AtUnlockAfterLock
          /\ last'.stmt.op = "SmartUnlock"
          /\ last'.res = ""
          /\ BoundPlain(BeforeLock, last'.stmt.name) )
        => environment' = BeforeLock ]_vars

(* C37 amended: the two statements act on the current scope only.  They    *)
(* leave in the current scope a plain binding of x with the value x        *)
(* resolved to, and every other binding of every scope as it was: the      *)
(* stack is identical to the one before when the current scope held x      *)
(* plain, and has one more binding in the current scope when only an       *)
(* outer scope held x.                                                     *)
C37_RoundTripCurrentScope ==
    [][ ( /\ AtUnlockAfterLock
          /\ last'.stmt.op = "SmartUnlock"
          /\ last'.res = ""
          /\ BoundPlain(BeforeLock, last'.stmt.name) )
        => LET x == last'.stmt.name
               d == Len(BeforeLock)
               here == BeforeLock[d]
           IN  /\ environment' =
                     [BeforeLock EXCEPT ![d] =
                         Put(@, x, Binding(Get(BeforeLock, x).val, FALSE, FALSE))]
               /\ (x \in DOMAIN here /\ ~here[x].is_constant /\ ~here[x].smart_lock)
                      => environment' = BeforeLock
               /\ x \notin DOMAIN here
                      => /\ Cardinality(DOMAIN environment'[d])
                               = Cardinality(DOMAIN here) + 1
                         /\ Outer(environment', d - 1) = Outer(BeforeLock, d - 1)
      ]_vars

(* relock has locked and unlocked the global x from inside its Jump: the   *)
(* scope of the Jump holds a plain x of its own                            *)
C37_Witness ==
    /\ stack # <<>>
    /\ Len(environment) = 2
    /\ last.stmt = SmartUnlockS("x")
    /\ last.res = ""
    /\ Top.fn # 0
    /\ LabelItems[Top.fn].name = "relock"
    /\ "x" \in DOMAIN environment[1]
    /\ environment[2] = [n \in {"x"} |-> environment[1]["x"]]

----------------------------------------------------------------------------
(* Expr::Binary with And / Or (interpreter/interpreter.rs, 318-369)        *)

(* Expr::AllocateVariable { name, val } with a literal val *)
AllocE(name, n) == [k |-> "Alloc", n |-> n, name |-> name]

LogicalS(left, operator, right) ==
    [op |-> operator, name |-> "", e |-> NoE, args |-> <<left, right>>]

(* the values l is bound to: a falsy and a truthy one of every variant     *)
(* that has both, and one of each of the others                            *)
LogicalValues ==
    {NilV, IntV(0), IntV(1), BoolV(FALSE), BoolV(TRUE), StringV(""),
     StringV("e"), FloatV("0.0"), FloatV("NaN"), FloatV("1.5"),
     BigIntV("0"), BigIntV(""), BigIntV("1"), CharV("e"), FunctionV(17),
     ControlFlowV(19)}

LeftOperands == {VarE("l"), VarE("u"), AllocE("w", 1)}

RightOperands == {LitE(7), VarE("l"), VarE("w"), VarE("u"), AllocE("w", 2)}

(* self.eval of an operand: an assignment defines its variable and yields  *)
(* Nil                                                                     *)
EvalOperand(e, scopes) ==
    IF e.k = "Alloc"
    THEN LET r == Define(scopes, e.name, IntV(e.n))
         IN  [err |-> r.err, val |-> NilV, env |-> r.env]
    ELSE LET r == EvalExpr(e, scopes, current_function_context, visible)
         IN  [err |-> r.err, val |-> r.val, env |-> scopes]

(* And / Or that evaluate the right operand only when the left one does    *)
(* not decide the result                                                   *)
EvalLogicalShortCircuit(left, operator, right) ==
    LET left_val == EvalOperand(left, environment)
        right_val == EvalOperand(right, left_val.env)
    IN  IF left_val.err # ""
        THEN [err |-> left_val.err, val |-> NilV, env |-> left_val.env,
              evaluated |-> <<>>]
        ELSE IF (operator = "And") # Truthy(left_val.val)
        THEN [err |-> "", val |-> left_val.val, env |-> left_val.env,
              evaluated |-> <<left_val.val>>]
        ELSE IF right_val.err # ""
        THEN [err |-> right_val.err, val |-> NilV, env |-> right_val.env,
              evaluated |-> <<left_val.val>>]
        ELSE [err |-> "", val |-> right_val.val, env |-> right_val.env,
              evaluated |-> <<left_val.val, right_val.val>>]

(* Expr::Binary: left_val, then right_val, then the match on the operator  *)
EvalLogical(left, operator, right) ==
    LET left_val == EvalOperand(left, environment)
        right_val == EvalOperand(right, left_val.env)
    IN  IF left_val.err # ""
        THEN [err |-> left_val.err, val |-> NilV, env |-> left_val.env,
              evaluated |-> <<>>]
        ELSE IF right_val.err # ""
        THEN [err |-> right_val.err, val |-> NilV, env |-> right_val.env,
              evaluated |-> <<left_val.val>>]
        ELSE [err |-> "",
              val |-> IF operator = "And"
                      THEN IF ~Truthy(left_val.val) THEN left_val.val
                           ELSE right_val.val
                      ELSE IF Truthy(left_val.val) THEN left_val.val
                           ELSE right_val.val,
              env |-> right_val.env,
              evaluated |-> <<left_val.val, right_val.val>>]

(* the host binds l *)
HostDefineOperand ==
    \E v \in LogicalValues :
        /\ stack = <<>>
        /\ environment' = Define(environment, "l", v).env
        /\ last' = Log(EnvCall("define", "l", NoE), "", v, <<>>, <<>>, "")
        /\ UNCHANGED <<visible, initialized_visible, visible_definitions,
                       current_function_context, stack, argsFirst, initEvals,
                       initAborted>>

(* the host evaluates left operator right *)
HostLogical(operator) ==
    \E left \in LeftOperands, right \in RightOperands :
        LET r == EvalLogical(left, operator, right)
        IN  /\ stack = <<>>
            /\ environment' = r.env
            /\ last' = Log(LogicalS(left, operator, right), r.err, r.val,
                           r.evaluated, <<>>, "")
            /\ UNCHANGED <<visible, initialized_visible, visible_definitions,
                           current_function_context, stack, argsFirst,
                           initEvals, initAborted>>

HostAnd == HostLogical("And")

HostOr == HostLogical("Or")

NextLogical ==
    \/ HostDefineOperand
    \/ HostAnd
    \/ HostOr

SpecLogical == Init /\ [][NextLogical]_vars

(* C38: when the left operand of an And or Or has been evaluated, the      *)
(* right operand is evaluated after it whatever the left value is: an      *)
(* assignment on the right has taken effect, an unbound variable on the    *)
(* right makes the expression fail, and the right operand sees the effect  *)
(* of the left one.  When both succeed, And yields the left value if it is *)
(* falsy and the right value otherwise, Or the left value if it is truthy  *)
(* and the right value otherwise: the operand's value, not a Bool.         *)
C38_LogicalAndOr ==
    [][ last'.stmt.op \in {"And", "Or"}
        => LET left == last'.stmt.args[1]
               right == last'.stmt.args[2]
               left_val == EvalOperand(left, environment)
           IN  /\ left_val.err # ""
                     => /\ last'.res = left_val.err
                        /\ environment' = environment
               /\ left_val.err = ""
                     => /\ Len(last'.argv) >= 1
                        /\ last'.argv[1] = left_val.val
                        /\ right.k = "Alloc"
                              => /\ last'.res = ""
                                 /\ Get(environment', right.name).val = IntV(right.n)
                        /\ (right.k = "Var" /\ ~Exists(left_val.env, right.name))
                              => last'.res = "UndefinedVariable"
                        /\ (right.k = "Var" /\ left.k = "Alloc"
                               /\ right.name = left.name)
                              => last'.argv = <<NilV, IntV(left.n)>>
                        /\ right.k = "Lit"
                              => last'.argv = <<left_val.val, IntV(right.n)>>
                        /\ last'.res = ""
                              => /\ Len(last'.argv) = 2
                                 /\ last'.val =
                                       IF (last'.stmt.op = "And")
                                              = Truthy(last'.argv[1])
                                       THEN last'.argv[2]
                                       ELSE last'.argv[1]
      ]_vars

(* l held a falsy Float, `l and (w = 2)` yielded that Float and w is 2     *)
C38_Witness ==
    /\ last.stmt = LogicalS(VarE("l"), "And", AllocE("w", 2))
    /\ last.res = ""
    /\ last.argv[1].t = "Float"
    /\ ~Truthy(last.argv[1])
    /\ last.val = last.argv[1]
    /\ Get(environment, "w").val = IntV(2)

====
